---- MODULE Spec2Model ----
(***************************************************************************)
(* A model of the krenk orchestration core: the Director (MasterBrain),    *)
(* the Scheduler, the ProcessSupervisor and the kill escalation of the     *)
(* spawner.  Each component has its own specification over the shared      *)
(* variables; the variables of the other components stay at their          *)
(* construction values.                                                    *)
(***************************************************************************)
EXTENDS Integers, Sequences, FiniteSets, TLC

VARIABLES
    \* ---- Director (MasterBrain) ----
    redoCounts,      \* MasterBrain.redoCounts: role -> number of redos ordered
    completedRoles,  \* MasterBrain.completedRoles
    activeRoles,     \* MasterBrain.activeRoles
    agentOutputs,    \* the roles MasterBrain.agentOutputs holds an output for
    statusBoard,     \* the status section of the shared memory
    lastReview,      \* the last call of reviewOutput and what it returned
    redoIssued,      \* role -> number of 'redo' verdicts returned so far
    agentLiveBuffer, \* MasterBrain.agentLiveBuffer: role -> length of its live output
    lastMonitor,     \* the last call of monitorOutput: what it did and returned
    \* ---- Scheduler.runParallel and the coding stage that calls it ----
    agents,          \* the SpawnOptions[] given to runParallel (their roles)
    maxParallel,     \* Scheduler.maxParallel
    batches,         \* const batches = this.chunk(agents, this.maxParallel)
    batchIdx,        \* how many batches the for loop has started
    taskState,       \* role -> "pending", "running", "done", "error", "errorClosed"
    running,         \* Scheduler.running (the keys of the Map)
    batchDone,       \* the roles of the current batch in the order they resolved
    results,         \* const results: AgentResult[]
    schedPc,         \* "idle", "awaiting", "returned" or "rejected"
    killAllCalled,   \* Scheduler.killAll() has been called
    engineRun,       \* where Engine.run is around its coding stage
    persistedStatus, \* the status of the last persisted run-state record
    errorListener,   \* whether the Engine has a listener for its 'error' event
    \* ---- ProcessSupervisor, the worker processes and the spawner's kill path ----
    now,             \* Date.now(), in seconds
    isWindows,       \* process.platform === 'win32'
    groupOk,         \* whether a signal to a worker's process group is delivered
    child,           \* pid -> the ChildProcess: its state, .killed, the signals sent
    tracked,         \* ProcessSupervisor.tracked: pid -> TrackedProcess or NoEntry
    pollTimer,       \* ProcessSupervisor.pollTimer: the time of its next tick, or NoTimer
    killTimers,      \* the pending setTimeout callbacks of the two kill routines
    activeChildren,  \* the spawner's module-level set of children
    killInitAt,      \* pid -> when a kill was first initiated on it, or Never
    killedEvents,    \* pid -> number of 'killed' events emitted for it
    killReason,      \* pid -> the reason of the 'killed' event the last step emitted
    warningEvents,   \* pid -> number of 'warning' events emitted for it
    supStats,        \* the 'stats' event the last step emitted: pid -> ProcessStats
    warnPolls,       \* pid -> number of snapshots (up to 2) with a warning condition
    memOverAt,       \* pid -> when a snapshot first reported its memory over the limit
    \* ---- the limits, and getStats as a function of one process's measures ----
    limits,          \* ProcessSupervisor.limits
    stInput,         \* memory (tenths of a MB), uptime and last-output age (seconds)
    stStatus,        \* the status getStats computed for stInput
    \* ---- the workflow: getNextStage and shouldSkipStage as functions ----
    wfCall,          \* the last call of getNextStage: its arguments and its result
    wfPath,          \* the stages visited from 'analyzing' with needsRevision = false
    skCall,          \* the last calls of shouldSkipStage: one stage, three skip lists
    \* ---- OrchestrationEngine.run ----
    enOpts,          \* opts: skipStages, resumeCompletedStages, an 'error' listener
    enPc,            \* where run() is
    enIdx,           \* the stage block run() is at, as an index of STAGES
    completedStages, \* the local completedStages of run()
    revisionCount,   \* this._revisionCount
    stateJson,       \* .krenk/state.json
    historyJson,     \* .krenk/history/<runId>/state.json
    enSpawn,         \* the worker run() waits for: stage, role, whether a redo,
                     \* its approval and whether its process was spawned
    enVerdict,       \* the last revision decision of a review-type stage
    enRuns,          \* calls of run() on this engine
    enCoding,        \* the coding stage under way: its modules, its prompt's length
    enLog,           \* the results and reviews of the stage block run() is in
    enStage,         \* the last two stages this run entered by setStage
    \* ---- setupGracefulShutdown ----
    shuttingDown,    \* the handler's flag
    exitTimer,       \* when the handler's exit timer is due, or NoTimer
    hostExited,      \* process.exit has been called
    \* ---- parsePlan ----
    planBlocks,      \* the ASSIGN blocks the planning text is written from
    planText,        \* the planning text, as a sequence of tokens
    plans,           \* the ParsedPlans returned by the calls of parsePlan so far
    \* ---- ContextManager ----
    ctxMemory,       \* memory: role -> stored output, Undefined where unset
    ctxHistory,      \* .krenk/history/<runId>/<role>.md: role -> file content
    ctxCall,         \* the last call of buildContext: its argument and result
    ctxSaves,        \* calls of save so far
    \* ---- SharedMemory ----
    smStore,         \* store: section -> content
    smDisk,          \* .krenk/shared: file name -> content
    smStale,         \* the files whose last write failed
    smLast,          \* the last mutation: its method, key, content, outcome
    smBlockers,      \* the entries logBlocker has recorded
    smOps,           \* mutations so far
    \* ---- a run interrupted and resumed ----
    rsOutputs,       \* what the strategist and the architect write
    rsSkip,          \* opts.skipStages
    rsPc,            \* where the run is
    rsPlan,          \* the local plan of run(): whether set, its modules
    rsMemory,        \* ContextManager.memory of the Engine in use
    rsHistory,       \* the <role>.md files of the run's history directory
    rsCompleted,     \* completedStages of the run under way
    rsResume,        \* opts.resumeCompletedStages
    rsResumed,       \* the run under way is a resumed one
    rsExpected,      \* the module list the interrupted run was about to use
    rsUsed,          \* the module list runCodingStage has settled on
    \* ---- runDirectedAgent ----
    rdCall           \* the call under way or returned last: its role, where it is

dirVars == <<redoCounts, completedRoles, activeRoles, agentOutputs,
             statusBoard, lastReview, redoIssued, agentLiveBuffer, lastMonitor>>

schedVars == <<agents, maxParallel, batches, batchIdx, taskState, running,
               batchDone, results, schedPc, killAllCalled, engineRun,
               persistedStatus, errorListener>>

supVars == <<now, isWindows, groupOk, child, tracked, pollTimer, killTimers,
             activeChildren, killInitAt, killedEvents, killReason,
             warningEvents, supStats, warnPolls, memOverAt>>

statVars == <<limits, stInput, stStatus>>

wfVars == <<wfCall, wfPath, skCall>>

engVars == <<enOpts, enPc, enIdx, completedStages, revisionCount, stateJson,
             historyJson, enSpawn, enVerdict, enRuns, enCoding, enLog, enStage>>

hostVars == <<shuttingDown, exitTimer, hostExited>>

planVars == <<planBlocks, planText, plans>>

ctxVars == <<ctxMemory, ctxHistory, ctxCall, ctxSaves>>

smVars == <<smStore, smDisk, smStale, smLast, smBlockers, smOps>>

rsVars == <<rsOutputs, rsSkip, rsPc, rsPlan, rsMemory, rsHistory, rsCompleted,
            rsResume, rsResumed, rsExpected, rsUsed>>

rdVars == <<rdCall>>

memVars == <<ctxVars, smVars, rsVars, rdVars>>

vars == <<dirVars, schedVars, supVars, statVars, wfVars, engVars, hostVars, planVars,
          memVars>>

\* What the actions of one component leave alone.
notDir == <<schedVars, supVars, statVars, wfVars, engVars, hostVars, planVars, memVars>>

notSched == <<dirVars, supVars, statVars, wfVars, engVars, hostVars, planVars, memVars>>

notSup == <<dirVars, schedVars, wfVars, engVars, hostVars, planVars, memVars>>

notStat == <<dirVars, schedVars, supVars, wfVars, engVars, hostVars, planVars, memVars>>

notWf == <<dirVars, schedVars, supVars, statVars, engVars, hostVars, planVars, memVars>>

\* What the shutdown handler leaves alone, besides the workers and the run
notHost == <<dirVars, schedVars, wfVars, planVars, memVars>>

notEng == <<dirVars, schedVars, supVars, statVars, wfVars, hostVars, planVars, memVars>>

notPlan == <<dirVars, schedVars, supVars, statVars, wfVars, engVars, hostVars, memVars>>

notMem == <<dirVars, schedVars, supVars, statVars, wfVars, engVars, hostVars, planVars>>

notCtx == <<smVars, rsVars, rdVars, notMem>>

notSm == <<ctxVars, rsVars, rdVars, notMem>>

notRs == <<ctxVars, smVars, rdVars, notMem>>

\* What a call of runDirectedAgent leaves alone, besides the Director
notRd == <<ctxVars, smVars, rsVars, schedVars, supVars, statVars, wfVars, engVars,
           hostVars, planVars>>

None == "none"

\* No review made yet.
NoReview == [role |-> None, verdict |-> None, notes |-> None,
             redosBefore |-> 0, disqualifying |-> FALSE]

(***************************************************************************)
(* Scheduler: runParallel, runOne, killAll, chunk                          *)
(***************************************************************************)

\* The longest task list and the largest concurrency ceiling explored.
MaxTasks == 5
MaxC == 3

Min(a, b) == IF a < b THEN a ELSE b

\* A chunk one element too long.
SliceTooLong(arr, i, size) == SubSeq(arr, i + 1, Min(i + size + 1, Len(arr)))

\* arr.slice(i, i + size), i counted from 0
Slice(arr, i, size) == SubSeq(arr, i + 1, Min(i + size, Len(arr)))

RECURSIVE ChunkFrom(_, _, _)
\* for (let i = 0; i < arr.length; i += size) chunks.push(arr.slice(i, i + size))
ChunkFrom(arr, size, i) ==
    IF i < Len(arr)
    THEN <<Slice(arr, i, size)>> \o ChunkFrom(arr, size, i + size)
    ELSE <<>>

\* chunk(arr, size)
chunk(arr, size) == ChunkFrom(arr, size, 0)

SeqRange(s) == {s[i] : i \in 1..Len(s)}

\* The worker of a role has been spawned and has emitted neither done nor error.
Live(r) == taskState[r] = "running"

\* Promise.race in place of Promise.all: one resolved task ends the wait.
AnyResolved(batch, ts) == \E r \in SeqRange(batch) : ts[r] = "done"

\* Promise.all over the batch resolves when every runOne promise has resolved.
AllResolved(batch, ts) == \A r \in SeqRange(batch) : ts[r] = "done"

\* The results in the order the workers finished.
ResultsAsFinished(batch, order) == [i \in 1..Len(order) |-> [role |-> order[i]]]

\* What Promise.all gives: one result per promise, in the order of the batch,
\* whatever the order in which they resolved.
BatchResults(batch, order) == [i \in 1..Len(batch) |-> [role |-> batch[i]]]

\* The scheduler and its caller as constructed, before runParallel is called.
SchedIdle ==
    /\ agents = <<>>
    /\ maxParallel = 3
    /\ batches = <<>>
    /\ batchIdx = 0
    /\ taskState = <<>>
    /\ running = {}
    /\ batchDone = <<>>
    /\ results = <<>>
    /\ schedPc = "idle"
    /\ killAllCalled = FALSE
    /\ engineRun = "coding"
    /\ persistedStatus = "running"
    /\ errorListener = FALSE

SchedInit ==
    /\ \E n \in 0..MaxTasks : agents = [i \in 1..n |-> i]
    /\ maxParallel \in 1..MaxC
    /\ batches = <<>>
    /\ batchIdx = 0
    /\ taskState = [i \in 1..Len(agents) |-> "pending"]
    /\ running = {}
    /\ batchDone = <<>>
    /\ results = <<>>
    /\ schedPc = "idle"
    /\ killAllCalled = FALSE
    /\ engineRun = "coding"
    /\ persistedStatus = "running"
    /\ errorListener \in BOOLEAN

MinC == -1

\* new Scheduler(maxParallel) with any ceiling the run command parses,
\* 0 and negative ones included
SchedInitAny ==
    /\ \E n \in 0..MaxTasks : agents = [i \in 1..n |-> i]
    /\ maxParallel \in MinC..MaxC
    /\ batches = <<>>
    /\ batchIdx = 0
    /\ taskState = [i \in 1..Len(agents) |-> "pending"]
    /\ running = {}
    /\ batchDone = <<>>
    /\ results = <<>>
    /\ schedPc = "idle"
    /\ killAllCalled = FALSE
    /\ engineRun = "coding"
    /\ persistedStatus = "running"
    /\ errorListener \in BOOLEAN

\* batch.map((opts) => this.runOne(opts, onProgress)): every task of the batch
\* is spawned, in input order, and entered in the running map.
SpawnBatch(bs, k, ts, run) ==
    /\ batchIdx' = k
    /\ taskState' = [r \in DOMAIN ts |->
                       IF r \in SeqRange(bs[k]) THEN "running" ELSE ts[r]]
    /\ running' = run \cup SeqRange(bs[k])
    /\ batchDone' = <<>>
    /\ schedPc' = "awaiting"

\* runCodingStage after runParallel has returned: the outputs are joined and
\* saved as the builder's output.
ReturnResults(res) ==
    /\ results' = res
    /\ schedPc' = "returned"
    /\ engineRun' = "builderSaved"

\* The loop of chunk never ends: with a size of 0 or less i never reaches
\* arr.length, and chunk after chunk is pushed
ChunkLoops(arr, size) == size <= 0 /\ Len(arr) > 0

\* runParallel is called: the agents are chunked and the first batch spawned;
\* with no agents there is no batch and the empty list is returned.  While
\* the loop of chunk runs nothing else does: runParallel stays in chunk.
RunParallel ==
    /\ schedPc = "idle"
    /\ engineRun = "coding"
    /\ IF ChunkLoops(agents, maxParallel)
       THEN /\ schedPc' = "chunking"
            /\ UNCHANGED <<batches, batchIdx, taskState, running, batchDone,
                           results, engineRun>>
       ELSE /\ batches' = chunk(agents, maxParallel)
            /\ IF batches' = <<>>
               THEN /\ ReturnResults(<<>>)
                    /\ UNCHANGED <<batchIdx, taskState, running, batchDone>>
               ELSE /\ SpawnBatch(batches', 1, taskState, running)
                    /\ UNCHANGED <<results, engineRun>>
    /\ UNCHANGED <<agents, maxParallel, killAllCalled, persistedStatus, errorListener>>

\* emitter 'done' of a running worker: running.delete, resolve(result).  When
\* it completes the batch the loop pushes the batch's results and goes on to
\* the next batch, or returns.
TaskDone(r) ==
    /\ r \in DOMAIN taskState
    /\ taskState[r] = "running"
    /\ LET ts == [taskState EXCEPT ![r] = "done"]
           order == Append(batchDone, r)
       IN  IF /\ schedPc = "awaiting"
              /\ r \in SeqRange(batches[batchIdx])
              /\ AllResolved(batches[batchIdx], ts)
           THEN LET res == results \o BatchResults(batches[batchIdx], order)
                IN  IF batchIdx < Len(batches)
                    THEN /\ SpawnBatch(batches, batchIdx + 1, ts, running \ {r})
                         /\ results' = res
                         /\ UNCHANGED engineRun
                    ELSE /\ ReturnResults(res)
                         /\ taskState' = ts
                         /\ running' = running \ {r}
                         /\ batchDone' = order
                         /\ UNCHANGED batchIdx
           ELSE /\ taskState' = ts
                /\ running' = running \ {r}
                /\ batchDone' = order
                /\ UNCHANGED <<batchIdx, results, schedPc, engineRun>>
    /\ UNCHANGED <<agents, maxParallel, batches, killAllCalled, persistedStatus,
                   errorListener>>

\* A per-task error boundary: the loop goes on as if the batch had completed.
RejectIgnored(ts, run) ==
    IF batchIdx < Len(batches)
    THEN /\ SpawnBatch(batches, batchIdx + 1, ts, run)
         /\ UNCHANGED <<results, engineRun>>
    ELSE /\ ReturnResults(results)
         /\ taskState' = ts
         /\ running' = run
         /\ UNCHANGED <<batchIdx, batchDone>>

\* Promise.all rejects with the first rejection: runParallel throws out of its
\* loop, runCodingStage throws, and Engine.run's catch block runs: it emits
\* 'error' on the Engine, which throws again unless a listener is attached.
Reject(ts, run) ==
    /\ taskState' = ts
    /\ running' = run
    /\ schedPc' = "rejected"
    /\ engineRun' = IF errorListener THEN "catching" ELSE "threw"
    /\ UNCHANGED <<batchIdx, batchDone, results>>

\* emitter 'error' of a running worker: running.delete, reject(err)
TaskError(r) ==
    /\ r \in DOMAIN taskState
    /\ taskState[r] = "running"
    /\ LET ts == [taskState EXCEPT ![r] = "error"]
       IN  IF schedPc = "awaiting"
           THEN Reject(ts, running \ {r})
           ELSE /\ taskState' = ts
                /\ running' = running \ {r}
                /\ UNCHANGED <<batchIdx, batchDone, results, schedPc, engineRun>>
    /\ UNCHANGED <<agents, maxParallel, batches, killAllCalled, persistedStatus,
                   errorListener>>

\* The child's 'close' after its 'error' (a failed spawn emits both): the
\* 'done' handler runs, and resolve() on the rejected promise does nothing.
ErrorClose(r) ==
    /\ r \in DOMAIN taskState
    /\ taskState[r] = "error"
    /\ taskState' = [taskState EXCEPT ![r] = "errorClosed"]
    /\ running' = running \ {r}
    /\ UNCHANGED <<agents, maxParallel, batches, batchIdx, batchDone, results,
                   schedPc, killAllCalled, engineRun, persistedStatus, errorListener>>

\* killAll(): killAgent on every emitter of the running map, which is emptied.
\* The workers exit later, each with its own 'done'.
KillAll ==
    /\ schedPc # "idle"
    /\ running' = {}
    /\ killAllCalled' = TRUE
    /\ UNCHANGED <<agents, maxParallel, batches, batchIdx, taskState, batchDone,
                   results, schedPc, engineRun, persistedStatus, errorListener>>

\* await saveProgress('failed').catch(() => {}); return { success: false, ... }
SaveFailed ==
    /\ engineRun = "catching"
    /\ engineRun' = "returnedFalse"
    /\ persistedStatus' \in {"failed", persistedStatus}
    /\ UNCHANGED <<agents, maxParallel, batches, batchIdx, taskState, running,
                   batchDone, results, schedPc, killAllCalled, errorListener>>

SchedNext ==
    \/ RunParallel /\ UNCHANGED notSched
    \/ \E r \in 1..MaxTasks : TaskDone(r) /\ UNCHANGED notSched
    \/ \E r \in 1..MaxTasks : TaskError(r) /\ UNCHANGED notSched
    \/ \E r \in 1..MaxTasks : ErrorClose(r) /\ UNCHANGED notSched
    \/ KillAll /\ UNCHANGED notSched
    \/ SaveFailed /\ UNCHANGED notSched

\* ceil(n / c) for c >= 1
CeilDiv(n, c) == (n + c - 1) \div c

LiveRoles == {r \in DOMAIN taskState : Live(r)}

Errored(r) == taskState[r] \in {"error", "errorClosed"}

\* C2: once runParallel has chunked N agents under ceiling C >= 1 there are exactly
\* ceil(N/C) batches of at most C tasks each, a run that returns has started every
\* one of them, and a task of batch k+1 is spawned only when every task of batch k
\* has resolved (emitted done).
C2_BatchesInOrder ==
    schedPc # "idle" =>
        /\ Len(batches) = CeilDiv(Len(agents), maxParallel)
        /\ \A k \in 1..Len(batches) : Len(batches[k]) <= maxParallel
        /\ batchIdx <= Len(batches)
        /\ schedPc = "returned" => batchIdx = Len(batches)
        /\ \A k \in 1..(Len(batches) - 1) :
             (\E r \in SeqRange(batches[k + 1]) : taskState[r] # "pending")
                => \A q \in SeqRange(batches[k]) : taskState[q] = "done"

\* C2 witness: 5 tasks under ceiling 3 have run as two batches of 3 and 2.
C2_Witness ==
    /\ schedPc = "returned"
    /\ Len(agents) = 5 /\ maxParallel = 3
    /\ Len(batches) = 2 /\ Len(batches[1]) = 3 /\ Len(batches[2]) = 2
    /\ batchIdx = 2

\* C3: at every moment of a runParallel execution with ceiling C >= 1 at most C
\* spawned workers have emitted neither done nor error, and getRunningCount()
\* (the size of the running map) is at most C.
C3_AtMostCRunning ==
    /\ Cardinality(LiveRoles) <= maxParallel
    /\ Cardinality(running) <= maxParallel

\* C3 witness: a later batch runs with the ceiling fully used.
C3_Witness ==
    /\ schedPc = "awaiting" /\ batchIdx >= 2
    /\ maxParallel >= 2
    /\ Cardinality(LiveRoles) = maxParallel
    /\ Cardinality(running) = maxParallel

\* C4: when runParallel returns (every task resolved, none with a process-level
\* error) it returns one result per input task, result i being that of input
\* task i, whatever the order in which the workers finished.
C4_ResultsInInputOrder ==
    schedPc = "returned" =>
        /\ Len(results) = Len(agents)
        /\ \A i \in 1..Len(agents) : results[i].role = agents[i]

\* C4 witness: a returned run of two batches whose last batch finished in another
\* order than its input order.
C4_Witness ==
    /\ schedPc = "returned"
    /\ Len(batches) >= 2
    /\ Len(batchDone) >= 2
    /\ batchDone # batches[Len(batches)]
    /\ \A r \in DOMAIN taskState : taskState[r] = "done"

\* C5: once a task has emitted a process-level error, runParallel has rejected,
\* no task of a later batch is ever spawned, and the run that called it is over
\* as a failure: it has not saved the builders' partial results.
C5_ErrorIsFatal ==
    \A r \in DOMAIN taskState :
        Errored(r) =>
            /\ schedPc = "rejected"
            /\ \A k \in 1..Len(batches) :
                 k > batchIdx => \A q \in SeqRange(batches[k]) : taskState[q] = "pending"
            /\ \E k \in 1..batchIdx : r \in SeqRange(batches[k])
            /\ engineRun \in {"catching", "returnedFalse", "threw"}

\* C5 witness: the first of several batches had an error after its other tasks
\* had resolved, and the run has returned its failure.
C5_Witness ==
    /\ Len(batches) >= 2 /\ batchIdx = 1
    /\ \E r \in SeqRange(batches[1]) :
         /\ Errored(r)
         /\ \A q \in SeqRange(batches[1]) \ {r} : taskState[q] = "done"
    /\ engineRun = "returnedFalse"
    /\ persistedStatus = "failed"


(***************************************************************************)
(* ProcessSupervisor: getStats (the health status)                         *)
(***************************************************************************)

\* const DEFAULT_LIMITS, times in seconds as the code compares them
DEFAULT_LIMITS ==
    [maxMemoryMB |-> 512, maxTimeSeconds |-> 900, hungWarningSeconds |-> 180,
     hungKillSeconds |-> 480, pollIntervalMs |-> 5000]

\* Memory is carried in tenths of a MB: pollResources rounds to one decimal.
\* memoryMB > maxMemoryMB
MemOver(l, memTenths) == memTenths > 10 * l.maxMemoryMB

\* memoryMB > maxMemoryMB * 0.8
MemHigh(l, memTenths) == 10 * memTenths > 80 * l.maxMemoryMB

\* uptime > maxTimeSeconds * 0.8
TimeHigh(l, uptime) == 10 * uptime > 8 * l.maxTimeSeconds

\* The two if statements the other way round: a warning hides a critical.
StatusWarningLast(l, memTenths, uptime, lastOutputAge) ==
    IF MemHigh(l, memTenths) \/ TimeHigh(l, uptime)
       \/ lastOutputAge > l.hungWarningSeconds
    THEN "warning"
    ELSE IF MemOver(l, memTenths) \/ uptime > l.maxTimeSeconds
            \/ lastOutputAge > l.hungKillSeconds
    THEN "critical"
    ELSE "healthy"

\* getStats: let status = 'healthy'; if (...) status = 'warning';
\* if (...) status = 'critical'
StatusOf(l, memTenths, uptime, lastOutputAge) ==
    LET s1 == IF MemHigh(l, memTenths) \/ TimeHigh(l, uptime)
                 \/ lastOutputAge > l.hungWarningSeconds
              THEN "warning" ELSE "healthy"
    IN  IF MemOver(l, memTenths) \/ uptime > l.maxTimeSeconds
           \/ lastOutputAge > l.hungKillSeconds
        THEN "critical" ELSE s1


\* Limits a ProcessSupervisor can be constructed with: the defaults, the
\* defaults with a later hang warning, and small limits with a short poll interval.
SmallLimits ==
    [maxMemoryMB |-> 10, maxTimeSeconds |-> 4, hungWarningSeconds |-> 1,
     hungKillSeconds |-> 3, pollIntervalMs |-> 2000]

LimitConfigs ==
    {DEFAULT_LIMITS, [DEFAULT_LIMITS EXCEPT !.hungWarningSeconds = 450], SmallLimits}

\* Measures on both sides of every threshold of the limits l.
MemPoints(l) == {0, 8 * l.maxMemoryMB, 8 * l.maxMemoryMB + 1,
                 10 * l.maxMemoryMB, 10 * l.maxMemoryMB + 1}

TimePoints(l) == {0, (8 * l.maxTimeSeconds) \div 10, (8 * l.maxTimeSeconds) \div 10 + 1,
                  l.maxTimeSeconds, l.maxTimeSeconds + 1}

AgePoints(l) == {0, l.hungWarningSeconds, l.hungWarningSeconds + 1,
                 (8 * l.hungKillSeconds) \div 10, (8 * l.hungKillSeconds) \div 10 + 1,
                 l.hungKillSeconds, l.hungKillSeconds + 1}

StatIdle ==
    /\ limits = DEFAULT_LIMITS
    /\ stInput = [mem |-> 0, uptime |-> 0, age |-> 0]
    /\ stStatus = "healthy"

StatInit ==
    /\ limits \in LimitConfigs
    /\ stInput = [mem |-> 0, uptime |-> 0, age |-> 0]
    /\ stStatus = "healthy"

\* getStats for one tracked process with the given measures
GetStatsOne ==
    \E m \in MemPoints(limits), u \in TimePoints(limits), a \in AgePoints(limits) :
        /\ stInput' = [mem |-> m, uptime |-> u, age |-> a]
        /\ stStatus' = StatusOf(limits, m, u, a)
        /\ UNCHANGED limits

StatNext == GetStatsOne /\ UNCHANGED notStat

\* The status as the specification words it: 80% applies to all three measures.
SpecifiedStatus(l, m, u, a) ==
    IF MemOver(l, m) \/ u > l.maxTimeSeconds \/ a > l.hungKillSeconds
    THEN "critical"
    ELSE IF \/ MemHigh(l, m)
            \/ TimeHigh(l, u)
            \/ 10 * a > 8 * l.hungKillSeconds
            \/ a > l.hungWarningSeconds
    THEN "warning"
    ELSE "healthy"

\* C8 as stated: for every configuration of limits and every measures, the status
\* is critical over a hard limit, else warning when memory, uptime or
\* time-since-activity exceeds 80% of its limit or time-since-activity exceeds the
\* hang-warning limit, else healthy.
C8_StatusAsStated ==
    stStatus = SpecifiedStatus(limits, stInput.mem, stInput.uptime, stInput.age)

\* C8 amended: critical over a hard limit; else warning when memory or uptime
\* exceeds 80% of its limit or time-since-activity exceeds the hang-warning limit
\* (80% of the hang limit plays no part); else healthy.
C8_Status ==
    LET l == limits
        critical == \/ MemOver(l, stInput.mem)
                    \/ stInput.uptime > l.maxTimeSeconds
                    \/ stInput.age > l.hungKillSeconds
        warning == \/ MemHigh(l, stInput.mem)
                   \/ TimeHigh(l, stInput.uptime)
                   \/ stInput.age > l.hungWarningSeconds
    IN  /\ critical => stStatus = "critical"
        /\ ~critical /\ warning => stStatus = "warning"
        /\ ~critical /\ ~warning => stStatus = "healthy"

\* C8 witness: time-since-activity above 80% of the hang limit and not above the
\* hang-warning limit, every other measure low: healthy.
C8_Witness ==
    /\ 10 * stInput.age > 8 * limits.hungKillSeconds
    /\ stInput.age <= limits.hungWarningSeconds
    /\ stInput.age <= limits.hungKillSeconds
    /\ stInput.mem = 0 /\ stInput.uptime = 0
    /\ stStatus = "healthy"

(***************************************************************************)
(* The worker processes, and the signals the two kill routines send        *)
(***************************************************************************)

Pids == {1, 2}

\* The role of the agent each worker runs.
RoleOf(p) == IF p = 1 THEN "builder" ELSE "guardian"

MaxTime == 6

\* Workers are spawned in the first seconds of a run.
MaxSpawnAt == 0

\* setTimeout(..., 3000) of killProcess and of forceKillChild, in seconds
GraceSeconds == 3

\* pollTimer = null
NoTimer == -1

\* No time recorded.
Never == NoTimer

\* A worker that has not been spawned.
NoChild == [state |-> "unspawned", killed |-> FALSE, obeysTerm |-> FALSE, sigs |-> {}]

\* process.kill(-pid, signal) does not throw: the worker lives and its process
\* group can be signalled.
GroupSignalOk(c) == c.state = "alive" /\ groupOk

\* child.kill(signal) delivers the signal: the worker lives.
ChildSignalOk(c) == c.state = "alive"

\* A worker that ignores SIGTERM survives it.
AfterTerm(c) == IF c.state = "alive" /\ c.obeysTerm THEN "dead" ELSE c.state

\* try { process.kill(-pid, 'SIGTERM') } catch { try { child.kill('SIGTERM') } catch {} }
\* child.kill sets child.killed when it delivers.
TermGroupOrChild(c) ==
    IF GroupSignalOk(c)
    THEN [c EXCEPT !.sigs = @ \cup {"SIGTERM group"}, !.state = AfterTerm(c)]
    ELSE IF ChildSignalOk(c)
    THEN [c EXCEPT !.sigs = @ \cup {"SIGTERM child"}, !.killed = TRUE,
                   !.state = AfterTerm(c)]
    ELSE c

\* try { process.kill(-pid, 'SIGKILL') } catch {}; try { child.kill('SIGKILL') } catch {}
KillGroupAndChild(c) ==
    [c EXCEPT !.sigs = @ \cup (IF GroupSignalOk(c) THEN {"SIGKILL group"} ELSE {})
                         \cup (IF ChildSignalOk(c) THEN {"SIGKILL child"} ELSE {}),
              !.killed = @ \/ ChildSignalOk(c),
              !.state = IF @ = "alive" THEN "dead" ELSE @]

\* spawn('taskkill', ['/pid', pid, '/T', '/F']): the process tree is ended by force.
Taskkill(c) ==
    [c EXCEPT !.sigs = @ \cup {"taskkill /F"},
              !.state = IF @ = "alive" THEN "dead" ELSE @]

\* A killProcess that sends nothing.
SupKillSignalsNone(c, win) == c

\* The signalling part of ProcessSupervisor.killProcess.
SupKillSignals(c, win) == IF win THEN Taskkill(c) ELSE TermGroupOrChild(c)

\* killProcess always arms its SIGKILL timer on Unix.
SupArmsTimer(c, win) == ~win

\* forceKillChild without the timer: if (child.killed) return; ...
ForceKillSignals(c, win) ==
    IF c.killed THEN c
    ELSE IF win THEN Taskkill(c) ELSE TermGroupOrChild(c)

\* forceKillChild arms its timer on Unix unless it returned at once.
ForceArmsTimer(c, win) == ~c.killed /\ ~win

\* The callback of forceKillChild's timer: if (!child.killed && child.pid) { ... }
SpawnerTimerFires(c) == IF ~c.killed THEN KillGroupAndChild(c) ELSE c

KillTimer(p, by) == [pid |-> p, due |-> now + GraceSeconds, by |-> by]

\* When the first kill was initiated on each worker.
InitiatedAt(ps) == [p \in Pids |-> IF p \in ps /\ killInitAt[p] = Never
                                   THEN now ELSE killInitAt[p]]

(***************************************************************************)
(* ProcessSupervisor: track, heartbeat, runChecks, killProcess, killAll    *)
(***************************************************************************)

NoEntry == [role |-> None, spawnedAt |-> Never, lastOutputAt |-> Never, warned |-> FALSE]

NoStat == [status |-> None, mem |-> 0, uptime |-> 0, age |-> 0]

NoReason == [role |-> None, kind |-> None, measured |-> 0, limit |-> 0]

TrackedPids == {p \in Pids : tracked[p] # NoEntry}

\* this.limits.pollIntervalMs, in seconds
PollSeconds == limits.pollIntervalMs \div 1000

\* Memory readings of ps for a living worker, in tenths of a MB: low, above 80%
\* of the limit, and above the limit.
MemLevels(l) == {5 * l.maxMemoryMB, 8 * l.maxMemoryMB + 5, 10 * l.maxMemoryMB + 4}

\* Math.round of a memory reading held in tenths
RoundMB(memTenths) == (memTenths + 5) \div 10

\* The supervisor and the workers as constructed: nothing spawned, nothing tracked.
SupIdle ==
    /\ now = 0
    /\ isWindows = FALSE
    /\ groupOk = TRUE
    /\ child = [p \in Pids |-> NoChild]
    /\ tracked = [p \in Pids |-> NoEntry]
    /\ pollTimer = NoTimer
    /\ killTimers = {}
    /\ activeChildren = {}
    /\ killInitAt = [p \in Pids |-> Never]
    /\ killedEvents = [p \in Pids |-> 0]
    /\ killReason = [p \in Pids |-> NoReason]
    /\ warningEvents = [p \in Pids |-> 0]
    /\ supStats = [p \in Pids |-> NoStat]
    /\ warnPolls = [p \in Pids |-> 0]
    /\ memOverAt = [p \in Pids |-> Never]

SupInit ==
    /\ now = 0
    /\ isWindows \in BOOLEAN
    /\ groupOk \in (IF isWindows THEN {TRUE} ELSE BOOLEAN)
    /\ child = [p \in Pids |-> NoChild]
    /\ tracked = [p \in Pids |-> NoEntry]
    /\ pollTimer = NoTimer
    /\ killTimers = {}
    /\ activeChildren = {}
    /\ killInitAt = [p \in Pids |-> Never]
    /\ killedEvents = [p \in Pids |-> 0]
    /\ killReason = [p \in Pids |-> NoReason]
    /\ warningEvents = [p \in Pids |-> 0]
    /\ supStats = [p \in Pids |-> NoStat]
    /\ warnPolls = [p \in Pids |-> 0]
    /\ memOverAt = [p \in Pids |-> Never]
    /\ limits = SmallLimits
    /\ stInput = [mem |-> 0, uptime |-> 0, age |-> 0]
    /\ stStatus = "healthy"

\* The first threshold runChecks finds exceeded, the hang limit left out.
CriticalKindNoHang(l, s) ==
    IF MemOver(l, s.mem) THEN "memory"
    ELSE IF s.uptime > l.maxTimeSeconds THEN "timeout"
    ELSE None

\* The first threshold runChecks finds exceeded: memory, then time, then hang.
CriticalKind(l, s) ==
    IF MemOver(l, s.mem) THEN "memory"
    ELSE IF s.uptime > l.maxTimeSeconds THEN "timeout"
    ELSE IF s.age > l.hungKillSeconds THEN "hang"
    ELSE None

\* The 'killed' event of runChecks: the role and the reason string, which names
\* the threshold, the measured value (memory through Math.round) and the limit.
KillReasonOf(l, e, s) ==
    LET k == CriticalKind(l, s)
    IN  IF k = "memory"
        THEN [role |-> e.role, kind |-> k, measured |-> RoundMB(s.mem),
              limit |-> l.maxMemoryMB]
        ELSE IF k = "timeout"
        THEN [role |-> e.role, kind |-> k, measured |-> s.uptime,
              limit |-> l.maxTimeSeconds]
        ELSE IF k = "hang"
        THEN [role |-> e.role, kind |-> k, measured |-> s.age,
              limit |-> l.hungKillSeconds]
        ELSE NoReason

\* One ProcessStats of getStats
StatOf(l, e, mem) ==
    [status |-> StatusOf(l, mem, now - e.spawnedAt, now - e.lastOutputAt),
     mem |-> mem, uptime |-> now - e.spawnedAt, age |-> now - e.lastOutputAt]

\* A warning that leaves the flag as it was.
SetWarnedNot(e) == e

\* entry.warned = true
SetWarned(e) == [e EXCEPT !.warned = TRUE]

\* if (cond && !entry.warned) { entry.warned = true; this.emit('warning', ...) }
WarnIf(w, cond) ==
    IF cond /\ ~w.entry.warned
    THEN [entry |-> SetWarned(w.entry), n |-> w.n + 1]
    ELSE w

\* Some warning condition of runChecks holds.
AnyWarning(l, s) ==
    s.age > l.hungWarningSeconds \/ MemHigh(l, s.mem) \/ TimeHigh(l, s.uptime)

\* The three warning ifs of runChecks, in their order: hang, memory, time.
AfterWarnings(l, e, s) ==
    WarnIf(WarnIf(WarnIf([entry |-> e, n |-> 0],
                         s.age > l.hungWarningSeconds),
                  MemHigh(l, s.mem)),
           TimeHigh(l, s.uptime))

\* A kill that leaves the entry in the map.
UntrackNot(e) == e

\* this.tracked.delete(entry.pid)
Untrack(e) == NoEntry

\* The step emits no event.
Quiet ==
    /\ supStats' = [p \in Pids |-> NoStat]
    /\ killReason' = [p \in Pids |-> NoReason]

\* spawnClaudeAgent; with supervised, the 'spawned' listener of runSingleAgent
\* calls track(role, child), which starts polling if no timer runs.  Without, the
\* worker is a parallel builder of Scheduler.runOne, whose 'spawned' listener
\* only reports progress.
SpawnAgent(p, supervised) ==
    /\ child[p].state = "unspawned"
    /\ now <= MaxSpawnAt
    /\ \E o \in BOOLEAN :
          child' = [child EXCEPT ![p] = [state |-> "alive", killed |-> FALSE,
                                         obeysTerm |-> o, sigs |-> {}]]
    /\ activeChildren' = activeChildren \cup {p}
    /\ IF supervised
       THEN /\ tracked' = [tracked EXCEPT ![p] =
                             [role |-> RoleOf(p), spawnedAt |-> now,
                              lastOutputAt |-> now, warned |-> FALSE]]
            /\ pollTimer' = IF pollTimer = NoTimer THEN now + PollSeconds ELSE pollTimer
       ELSE UNCHANGED <<tracked, pollTimer>>
    /\ Quiet
    /\ UNCHANGED <<now, isWindows, groupOk, killTimers, killInitAt, killedEvents,
                   warningEvents, warnPolls, memOverAt, statVars>>

\* child.stdout / child.stderr 'data' listener of track
Output(p) ==
    /\ child[p].state = "alive"
    /\ tracked[p] # NoEntry
    /\ tracked[p].lastOutputAt # now
    /\ tracked' = [tracked EXCEPT ![p].lastOutputAt = now]
    /\ Quiet
    /\ UNCHANGED <<now, isWindows, groupOk, child, pollTimer, killTimers, activeChildren,
                   killInitAt, killedEvents, warningEvents, warnPolls, memOverAt, statVars>>

\* heartbeat(role)
Heartbeat(role) ==
    /\ \E p \in TrackedPids : tracked[p].role = role /\ tracked[p].lastOutputAt # now
    /\ tracked' = [p \in Pids |->
                     IF tracked[p] # NoEntry /\ tracked[p].role = role
                     THEN [tracked[p] EXCEPT !.lastOutputAt = now]
                     ELSE tracked[p]]
    /\ Quiet
    /\ UNCHANGED <<now, isWindows, groupOk, child, pollTimer, killTimers, activeChildren,
                   killInitAt, killedEvents, warningEvents, warnPolls, memOverAt, statVars>>

\* The worker process ends.
Exit(p) ==
    /\ child[p].state = "alive"
    /\ child' = [child EXCEPT ![p].state = "dead"]
    /\ Quiet
    /\ UNCHANGED <<now, isWindows, groupOk, tracked, pollTimer, killTimers, activeChildren,
                   killInitAt, killedEvents, warningEvents, warnPolls, memOverAt, statVars>>

\* child 'close': the listener of track untracks, the spawner's forgets the child
Close(p) ==
    /\ child[p].state = "dead"
    /\ child' = [child EXCEPT ![p].state = "closed"]
    /\ tracked' = [tracked EXCEPT ![p] = NoEntry]
    /\ activeChildren' = activeChildren \ {p}
    /\ Quiet
    /\ UNCHANGED <<now, isWindows, groupOk, pollTimer, killTimers, killInitAt, killedEvents,
                   warningEvents, warnPolls, memOverAt,
                   statVars>>

\* A second passes; a timer that is due fires first.
Tick ==
    /\ now < MaxTime
    /\ pollTimer # now
    /\ \A t \in killTimers : t.due # now
    /\ now' = now + 1
    /\ Quiet
    /\ UNCHANGED <<isWindows, groupOk, child, tracked, pollTimer, killTimers, activeChildren,
                   killInitAt, killedEvents, warningEvents, warnPolls, memOverAt, statVars>>

\* stop()
Stop ==
    /\ pollTimer # NoTimer
    /\ pollTimer' = NoTimer
    /\ Quiet
    /\ UNCHANGED <<now, isWindows, groupOk, child, tracked, killTimers, activeChildren,
                   killInitAt, killedEvents, warningEvents, warnPolls, memOverAt, statVars>>

\* runChecks, the tick of the poll timer: stop when nothing is tracked; otherwise
\* take the snapshot (getStats with one call of ps), emit it, and for every
\* process of the snapshot kill it over a hard limit or else warn once.
RunChecks ==
    /\ pollTimer = now
    /\ IF TrackedPids = {}
       THEN /\ pollTimer' = NoTimer
            /\ Quiet
            /\ UNCHANGED <<now, isWindows, groupOk, child, tracked, killTimers, activeChildren,
                           killInitAt, killedEvents, warningEvents,
                           warnPolls, memOverAt, statVars>>
       ELSE \E psFails \in BOOLEAN, level \in [TrackedPids -> MemLevels(limits)] :
            LET mem(p) == IF psFails \/ child[p].state # "alive" THEN 0 ELSE level[p]
                stat(p) == StatOf(limits, tracked[p], mem(p))
                kills == {p \in TrackedPids : CriticalKind(limits, stat(p)) # None}
                warns(p) == AfterWarnings(limits, tracked[p], stat(p))
            IN  /\ supStats' = [p \in Pids |->
                                  IF p \in TrackedPids THEN stat(p) ELSE NoStat]
                /\ killedEvents' = [p \in Pids |->
                                      IF p \in kills THEN killedEvents[p] + 1
                                      ELSE killedEvents[p]]
                /\ killReason' = [p \in Pids |->
                                    IF p \in kills
                                    THEN KillReasonOf(limits, tracked[p], stat(p))
                                    ELSE NoReason]
                /\ child' = [p \in Pids |->
                               IF p \in kills THEN SupKillSignals(child[p], isWindows)
                               ELSE child[p]]
                /\ killTimers' = killTimers \cup
                                 {KillTimer(p, "supervisor") :
                                    p \in {q \in kills : SupArmsTimer(child[q], isWindows)}}
                /\ killInitAt' = InitiatedAt(kills)
                /\ tracked' = [p \in Pids |->
                                 IF p \in kills THEN Untrack(tracked[p])
                                 ELSE IF p \in TrackedPids THEN warns(p).entry
                                 ELSE tracked[p]]
                /\ warningEvents' = [p \in Pids |->
                                       IF p \in TrackedPids \ kills
                                       THEN warningEvents[p] + warns(p).n
                                       ELSE warningEvents[p]]
                /\ warnPolls' = [p \in Pids |->
                                   IF /\ p \in TrackedPids \ kills
                                      /\ AnyWarning(limits, stat(p))
                                   THEN Min(warnPolls[p] + 1, 2)
                                   ELSE warnPolls[p]]
                /\ memOverAt' = [p \in Pids |->
                                   IF /\ p \in TrackedPids
                                      /\ MemOver(limits, mem(p))
                                      /\ memOverAt[p] = Never
                                   THEN now ELSE memOverAt[p]]
                /\ pollTimer' = now + PollSeconds
                /\ UNCHANGED <<now, isWindows, groupOk, activeChildren, statVars>>

\* The callback of killProcess's timer: SIGKILL to the group and to the child.
SupKillTimer ==
    \E t \in killTimers :
        /\ t.due = now
        /\ t.by = "supervisor"
        /\ child' = [child EXCEPT ![t.pid] = KillGroupAndChild(@)]
        /\ killTimers' = killTimers \ {t}
        /\ Quiet
        /\ UNCHANGED <<now, isWindows, groupOk, tracked, pollTimer, activeChildren, killInitAt,
                       killedEvents, warningEvents, warnPolls, memOverAt, statVars>>

\* ProcessSupervisor.killAll(): stop, killProcess on every entry, clear.
SupKillAll ==
    /\ TrackedPids # {} \/ pollTimer # NoTimer
    /\ pollTimer' = NoTimer
    /\ killedEvents' = [p \in Pids |->
                          IF p \in TrackedPids THEN killedEvents[p] + 1
                          ELSE killedEvents[p]]
    /\ killReason' = [p \in Pids |->
                        IF p \in TrackedPids
                        THEN [role |-> tracked[p].role, kind |-> "shutdown",
                              measured |-> 0, limit |-> 0]
                        ELSE NoReason]
    /\ supStats' = [p \in Pids |-> NoStat]
    /\ child' = [p \in Pids |->
                   IF p \in TrackedPids THEN SupKillSignals(child[p], isWindows)
                   ELSE child[p]]
    /\ killTimers' = killTimers \cup
                     {KillTimer(p, "supervisor") :
                        p \in {q \in TrackedPids : SupArmsTimer(child[q], isWindows)}}
    /\ killInitAt' = InitiatedAt(TrackedPids)
    /\ tracked' = [p \in Pids |-> NoEntry]
    /\ UNCHANGED <<now, isWindows, groupOk, activeChildren, warningEvents, warnPolls,
                   memOverAt, statVars>>

\* killAgent(emitter): forceKillChild(emitter.child); activeChildren.delete.
\* Scheduler.killAll and AgentRegistry.killAll call it on agents still running.
KillAgent(p) ==
    /\ p \in activeChildren
    /\ child' = [child EXCEPT ![p] = ForceKillSignals(@, isWindows)]
    /\ killTimers' = killTimers \cup
                     (IF ForceArmsTimer(child[p], isWindows)
                      THEN {KillTimer(p, "spawner")} ELSE {})
    /\ killInitAt' = InitiatedAt({p})
    /\ activeChildren' = activeChildren \ {p}
    /\ Quiet
    /\ UNCHANGED <<now, isWindows, groupOk, tracked, pollTimer, killedEvents,
                   warningEvents, warnPolls, memOverAt, statVars>>

\* killAllAgents(): forceKillChild on every active child; activeChildren.clear()
KillAllAgents ==
    /\ activeChildren # {}
    /\ child' = [p \in Pids |->
                   IF p \in activeChildren THEN ForceKillSignals(child[p], isWindows)
                   ELSE child[p]]
    /\ killTimers' = killTimers \cup
                     {KillTimer(p, "spawner") :
                        p \in {q \in activeChildren : ForceArmsTimer(child[q], isWindows)}}
    /\ killInitAt' = InitiatedAt(activeChildren)
    /\ activeChildren' = {}
    /\ Quiet
    /\ UNCHANGED <<now, isWindows, groupOk, tracked, pollTimer, killedEvents,
                   warningEvents, warnPolls, memOverAt, statVars>>

\* The callback of forceKillChild's timer.
SpawnerKillTimer ==
    \E t \in killTimers :
        /\ t.due = now
        /\ t.by = "spawner"
        /\ child' = [child EXCEPT ![t.pid] = SpawnerTimerFires(@)]
        /\ killTimers' = killTimers \ {t}
        /\ Quiet
        /\ UNCHANGED <<now, isWindows, groupOk, tracked, pollTimer, activeChildren, killInitAt,
                       killedEvents, warningEvents, warnPolls, memOverAt, statVars>>

\* The supervisor over two workers it tracks.
SupNext ==
    \/ \E p \in Pids : SpawnAgent(p, TRUE) /\ UNCHANGED notSup
    \/ \E p \in Pids : Output(p) /\ UNCHANGED notSup
    \/ \E p \in Pids : Heartbeat(RoleOf(p)) /\ UNCHANGED notSup
    \/ \E p \in Pids : Exit(p) /\ UNCHANGED notSup
    \/ \E p \in Pids : Close(p) /\ UNCHANGED notSup
    \/ Tick /\ UNCHANGED notSup
    \/ Stop /\ UNCHANGED notSup
    \/ RunChecks /\ UNCHANGED notSup
    \/ SupKillTimer /\ UNCHANGED notSup
    \/ SupKillAll /\ UNCHANGED notSup

\* One worker, tracked or not, under both kill paths: the supervisor's and the
\* spawner's.
KillNext ==
    \/ \E supervised \in BOOLEAN :
          SpawnAgent(1, supervised) /\ UNCHANGED notSup
    \/ Output(1) /\ UNCHANGED notSup
    \/ Exit(1) /\ UNCHANGED notSup
    \/ Close(1) /\ UNCHANGED notSup
    \/ Tick /\ UNCHANGED notSup
    \/ RunChecks /\ UNCHANGED notSup
    \/ SupKillTimer /\ UNCHANGED notSup
    \/ SupKillAll /\ UNCHANGED notSup
    \/ KillAgent(1) /\ UNCHANGED notSup
    \/ KillAllAgents /\ UNCHANGED notSup
    \/ SpawnerKillTimer /\ UNCHANGED notSup

(***************************************************************************)
(* The workflow: STAGES, TRANSITIONS, getNextStage, shouldSkipStage        *)
(***************************************************************************)

\* const STAGES: stage, role and label of every stage, in order
STAGES ==
    << [stage |-> "analyzing",    role |-> "analyst",    label |-> "Analyze"],
       [stage |-> "planning",     role |-> "strategist", label |-> "Plan"],
       [stage |-> "designing",    role |-> "designer",   label |-> "Design"],
       [stage |-> "architecting", role |-> "architect",  label |-> "Architect"],
       [stage |-> "coding",       role |-> "builder",    label |-> "Code"],
       [stage |-> "qa-planning",  role |-> "qa",         label |-> "QA"],
       [stage |-> "testing",      role |-> "guardian",   label |-> "Test"],
       [stage |-> "reviewing",    role |-> "sentinel",   label |-> "Review"],
       [stage |-> "securing",     role |-> "security",   label |-> "Security"],
       [stage |-> "documenting",  role |-> "scribe",     label |-> "Docs"],
       [stage |-> "deploying",    role |-> "devops",     label |-> "DevOps"],
       [stage |-> "complete",     role |-> "",           label |-> "Done"] >>

\* type Stage
StageIds == {STAGES[i].stage : i \in 1..Len(STAGES)}

\* The null of Stage | null
Null == "null"

\* const TRANSITIONS
TRANSITIONS ==
    [s \in StageIds |->
        CASE s = "analyzing"    -> "planning"
          [] s = "planning"     -> "designing"
          [] s = "designing"    -> "architecting"
          [] s = "architecting" -> "coding"
          [] s = "coding"       -> "qa-planning"
          [] s = "qa-planning"  -> "testing"
          [] s = "testing"      -> "reviewing"
          [] s = "reviewing"    -> "securing"
          [] s = "securing"     -> "documenting"
          [] s = "documenting"  -> "deploying"
          [] s = "deploying"    -> "complete"
          [] s = "complete"     -> Null]

\* getNextStage with the back edge from 'reviewing' only.
getNextStageReviewOnly(current, needsRevision) ==
    IF current = "reviewing" /\ needsRevision THEN "coding" ELSE TRANSITIONS[current]

\* getNextStage(current, needsRevision)
getNextStage(current, needsRevision) ==
    IF (current = "reviewing" \/ current = "securing") /\ needsRevision
    THEN "coding"
    ELSE TRANSITIONS[current]

\* getStageInfo(stage): STAGES.find((s) => s.stage === stage)
getStageInfo(stage) ==
    LET hits == {i \in 1..Len(STAGES) : STAGES[i].stage = stage}
    IN  IF hits = {} THEN [stage |-> Null, role |-> Null, label |-> Null]
        ELSE STAGES[CHOOSE i \in hits : \A j \in hits : i <= j]

\* String.prototype.toLowerCase on the labels of STAGES
toLowerCase(label) ==
    CASE label = "Analyze"   -> "analyze"
      [] label = "Plan"      -> "plan"
      [] label = "Design"    -> "design"
      [] label = "Architect" -> "architect"
      [] label = "Code"      -> "code"
      [] label = "QA"        -> "qa"
      [] label = "Test"      -> "test"
      [] label = "Review"    -> "review"
      [] label = "Security"  -> "security"
      [] label = "Docs"      -> "docs"
      [] label = "DevOps"    -> "devops"
      [] label = "Done"      -> "done"
      [] OTHER               -> label

\* skipStages.includes(token)
Includes(list, token) == \E i \in 1..Len(list) : list[i] = token

\* shouldSkipStage that compares the label as it is written.
shouldSkipStageLabelAsIs(stage, skipStages) ==
    LET info == getStageInfo(stage)
    IN  IF info.stage = Null THEN FALSE
        ELSE \/ Includes(skipStages, stage)
             \/ Includes(skipStages, info.role)
             \/ Includes(skipStages, info.label)

\* shouldSkipStage(stage, skipStages)
shouldSkipStage(stage, skipStages) ==
    LET info == getStageInfo(stage)
    IN  IF info.stage = Null THEN FALSE
        ELSE \/ Includes(skipStages, stage)
             \/ Includes(skipStages, info.role)
             \/ Includes(skipStages, toLowerCase(info.label))

\* No call of getNextStage yet
NoCall == [current |-> Null, needsRevision |-> FALSE, next |-> Null]

\* No call of shouldSkipStage yet
NoSkip == [stage |-> Null, base |-> <<>>, before |-> FALSE,
           single |-> <<>>, added |-> <<>>]

MaxPath == 13

MaxBase == 1

\* The strings a skip list is drawn from: stage ids, role ids, labels in
\* lower case and labels as STAGES writes them.
SkipTokens ==
    UNION {{STAGES[i].stage, STAGES[i].role, toLowerCase(STAGES[i].label),
            STAGES[i].label} : i \in 1..Len(STAGES)}

SkipLists == UNION {[1..n -> SkipTokens] : n \in 0..MaxBase}

\* The three tokens that name a stage: its id, its role id, its lowercase label
TokensOf(stage) ==
    << stage, getStageInfo(stage).role, toLowerCase(getStageInfo(stage).label) >>

WfIdle == wfCall = NoCall /\ wfPath = <<"analyzing">> /\ skCall = NoSkip

\* The arguments of shouldSkipStage: any stage, any skip list of the bound
SkipInit ==
    /\ wfCall = NoCall
    /\ wfPath = <<"analyzing">>
    /\ skCall \in {[stage |-> stage, base |-> base, before |-> FALSE,
                     single |-> <<>>, added |-> <<>>] :
                        stage \in StageIds, base \in SkipLists}

\* One call getNextStage(current, needsRevision)
CallNextStage ==
    \E current \in StageIds, needsRevision \in BOOLEAN :
        /\ wfCall' = [current |-> current, needsRevision |-> needsRevision,
                      next |-> getNextStage(current, needsRevision)]
        /\ UNCHANGED <<wfPath, skCall>>
        /\ UNCHANGED notWf

\* One step of the iteration stage = getNextStage(stage) until null
WalkStage ==
    LET next == getNextStage(wfPath[Len(wfPath)], FALSE)
    IN  /\ next # Null
        /\ Len(wfPath) < MaxPath
        /\ wfPath' = Append(wfPath, next)
        /\ UNCHANGED <<wfCall, skCall>>
        /\ UNCHANGED notWf

StagesNext == CallNextStage \/ WalkStage

\* shouldSkipStage(stage, L) for a base list, for the three single-token lists
\* and for the base list with each of the three tokens added
CallShouldSkip ==
    LET stage == skCall.stage
        base  == skCall.base
    IN  /\ stage # Null
        /\ skCall.single = <<>>
        /\ skCall' = [stage  |-> stage,
                      base   |-> base,
                      before |-> shouldSkipStage(stage, base),
                      single |-> [k \in 1..3 |->
                                    shouldSkipStage(stage, <<TokensOf(stage)[k]>>)],
                      added  |-> [k \in 1..3 |->
                                    shouldSkipStage(stage,
                                        Append(base, TokensOf(stage)[k]))]]
        /\ UNCHANGED <<wfCall, wfPath>>
        /\ UNCHANGED notWf

SkipNext == CallShouldSkip

(***************************************************************************)
(* OrchestrationEngine.run: the stage blocks, the checkpoints, the catch   *)
(***************************************************************************)

MAX_REVISIONS == 2

MaxRuns == 2

\* No state.json
NoState == [status |-> "none", completedStages |-> <<>>]

\* run() waits for no worker
NoSpawn == [stage |-> Null, role |-> Null, fix |-> FALSE, redo |-> FALSE,
            approval |-> "none", spawned |-> FALSE, parallel |-> FALSE, phase |-> 0]

\* No stage entered
NoStage == [current |-> Null, previous |-> Null]

\* No coding stage under way
NoCoding == [modules |-> 0, promptLength |-> 0]

\* No review-type stage has decided
NoVerdict == [stage |-> Null, needsRevision |-> FALSE, countBefore |-> 0,
              reentered |-> FALSE]

\* The skip lists of the runs
SkipChoices == { <<>>, <<"testing", "docs">>, <<"review">>, <<"builder">> }

\* The stages a resumed run has completed: none for a new run
ResumeChoices == { {}, {"analyzing", "planning"} }

\* The index of 'complete' in STAGES: run() has passed its last stage block
PastLast == Len(STAGES)

EngIdle ==
    /\ enOpts = [skipStages |-> <<>>, resumeCompleted |-> {}, errorListener |-> FALSE,
                 supervised |-> FALSE]
    /\ enPc = "constructed"
    /\ enIdx = 1
    /\ completedStages = <<>>
    /\ revisionCount = 0
    /\ stateJson = NoState
    /\ historyJson = NoState
    /\ enSpawn = NoSpawn
    /\ enVerdict = NoVerdict
    /\ enRuns = 0
    /\ enCoding = NoCoding
    /\ enLog = <<>>
    /\ enStage = NoStage

\* new OrchestrationEngine(opts).  A resumed run has the run id of the run it
\* resumes, whose state.json lists the completed stages and was left at
\* 'running' or 'failed'.
EngInit ==
    /\ enOpts \in [skipStages : SkipChoices, resumeCompleted : ResumeChoices,
                   errorListener : BOOLEAN, supervised : BOOLEAN]
    /\ enPc = "constructed"
    /\ enIdx = 1
    /\ completedStages = <<>>
    /\ revisionCount = 0
    /\ \E st \in {"running", "failed"} :
         stateJson = IF enOpts.resumeCompleted = {} THEN NoState
                     ELSE [status |-> st, completedStages |-> <<"analyzing", "planning">>]
    /\ historyJson = stateJson
    /\ enSpawn = NoSpawn
    /\ enVerdict = NoVerdict
    /\ enRuns = 0
    /\ enCoding = NoCoding
    /\ enLog = <<>>
    /\ enStage = NoStage

\* The revision loop's condition without the bound on the counter.
NeedsFixUnbounded(needsRevision, count) == needsRevision

\* review.output.includes('NEEDS_REVISION') && this._revisionCount < this.MAX_REVISIONS
NeedsFix(needsRevision, count) == needsRevision /\ count < MAX_REVISIONS

\* saveStateToHistory: both files are written; when a write fails the promise
\* rejects and either file may or may not hold the new record.
SaveOutcomes == {"ok", "none", "currentOnly", "historyOnly"}

Save(status, completed, outcome) ==
    LET rec == [status |-> status, completedStages |-> completed]
    IN  /\ stateJson' = IF outcome \in {"ok", "currentOnly"} THEN rec ELSE stateJson
        /\ historyJson' = IF outcome \in {"ok", "historyOnly"} THEN rec ELSE historyJson

\* A catch that runs the failed stage block again instead of ending the run.
CatchRetries == enPc' = "stage"

\* catch (error): this.emit('error', error) throws again unless a listener is
\* attached; otherwise saveProgress('failed') follows.
Catch == enPc' = IF enOpts.errorListener THEN "catching" ELSE "threw"

\* runSingleAgent(role, ...) is entered: requestApproval resolves 'approve'
\* at once unless opts.supervised, where the request is emitted and the
\* worker is not spawned before the answer.
SingleAgent(stage, role, fix, redo) ==
    [stage |-> stage, role |-> role, fix |-> fix, redo |-> redo,
     approval |-> IF enOpts.supervised THEN "requested" ELSE "none",
     spawned |-> ~enOpts.supervised, parallel |-> FALSE, phase |-> 0]

\* scheduler.runParallel(spawnOpts, ...): runOne spawns each module's builder
ParallelBuilders ==
    [stage |-> "coding", role |-> "builder", fix |-> FALSE, redo |-> FALSE,
     approval |-> "none", spawned |-> TRUE, parallel |-> TRUE, phase |-> 0]

\* The builder prompts getPhases returns at least this long are split
MinPhasedLength == 500

MaxModules == 2

\* The lengths of the builder prompts of the runs
PromptLengths == {MinPhasedLength - 1, MinPhasedLength}

\* A threshold one character higher.
getPhasesOver(role, promptLength) ==
    IF role # "builder" \/ promptLength <= MinPhasedLength
    THEN <<"full">>
    ELSE <<"setup", "core", "polish">>

\* MasterBrain.getPhases(role, fullPrompt)
getPhases(role, promptLength) ==
    IF role # "builder" \/ promptLength < MinPhasedLength
    THEN <<"full">>
    ELSE <<"setup", "core", "polish">>

\* const phases = this.brain.getPhases('builder', builderPrompt)
Phases == getPhases("builder", enCoding.promptLength)

\* runSingleAgent('builder', phasePrompt) for phase i of the phased coding
\* stage, or for its redo
PhaseAgent(phase, redo) ==
    [SingleAgent("coding", "builder", FALSE, redo) EXCEPT !.phase = phase]

\* A review after the first phase only.
ReviewsFirstOnly(phase, total) == phase < total - 1

\* if (i < phases.length - 1), the phases counted from 1
ReviewsBetween(phase, total) == phase < total

\* What enLog records of a worker
Entry(event, spawn) ==
    [event |-> event, phase |-> spawn.phase, redo |-> spawn.redo, fix |-> spawn.fix,
     parallel |-> spawn.parallel, worker |-> spawn.spawned]

\* The worker run() waits for has resolved; brain.reviewOutput(role, result)
\* follows in runDirectedAgent and between the phases, not after runParallel
Resolved(spawn) ==
    <<Entry("result", spawn)>> \o
    (IF spawn.parallel THEN <<>>
     ELSE IF spawn.phase = 0 \/ ReviewsBetween(spawn.phase, Len(Phases))
          THEN <<Entry("review", spawn)>>
          ELSE <<>>)

\* this.setStage(stage)
setStage(stage) == enStage' = [current |-> stage, previous |-> enStage.current]

\* run(userPrompt)
Run ==
    /\ enPc \in {"constructed", "returnedTrue", "returnedFalse", "threw"}
    /\ enRuns < MaxRuns
    /\ enRuns' = enRuns + 1
    /\ enPc' = "stage"
    /\ enIdx' = 1
    /\ completedStages' = <<>>
    /\ enSpawn' = NoSpawn
    /\ enCoding' = NoCoding
    /\ enLog' = <<>>
    /\ enStage' = NoStage
    /\ UNCHANGED <<enOpts, revisionCount, stateJson, historyJson, enVerdict>>
    /\ UNCHANGED notEng

\* The if of a stage block: !shouldSkip(stage) && !resumeCompleted.has(stage)
StageSelected(stage) ==
    /\ ~shouldSkipStage(stage, enOpts.skipStages)
    /\ stage \notin enOpts.resumeCompleted

\* A stage block whose condition is false; the design block also when
\* needsDesign() finds no UI keyword in the plan.
PassStage ==
    /\ enPc = "stage"
    /\ enIdx < PastLast
    /\ \/ ~StageSelected(STAGES[enIdx].stage)
       \/ STAGES[enIdx].stage = "designing"
    /\ enIdx' = enIdx + 1
    /\ UNCHANGED <<enOpts, enPc, completedStages, revisionCount, stateJson,
                   historyJson, enSpawn, enVerdict, enRuns, enCoding, enLog, enStage>>
    /\ UNCHANGED notEng

\* setStage(stage); runDirectedAgent(role, ...) runs the stage's worker; the
\* coding stage with more than one module runs parallel builders instead.
StartStage ==
    /\ enPc = "stage"
    /\ enIdx < PastLast
    /\ StageSelected(STAGES[enIdx].stage)
    /\ enPc' = "worker"
    /\ setStage(STAGES[enIdx].stage)
    /\ enLog' = <<>>
    /\ IF STAGES[enIdx].stage = "coding"
       THEN \E modules \in 0..MaxModules, promptLength \in PromptLengths :
               /\ enCoding' = [modules |-> modules, promptLength |-> promptLength]
               /\ enSpawn' = IF modules > 1 THEN ParallelBuilders
                             ELSE IF Len(getPhases("builder", promptLength)) > 1
                                  THEN PhaseAgent(1, FALSE)
                                  ELSE SingleAgent("coding", "builder", FALSE, FALSE)
       ELSE /\ enCoding' = NoCoding
            /\ enSpawn' = SingleAgent(STAGES[enIdx].stage, STAGES[enIdx].role, FALSE, FALSE)
    /\ UNCHANGED <<enOpts, enIdx, completedStages, revisionCount, stateJson,
                   historyJson, enVerdict, enRuns>>
    /\ UNCHANGED notEng

\* runDirectedAgent: the Director's verdict is 'redo', the worker is spawned
\* once more
RedoAgent ==
    /\ enPc \in {"worker", "fixWorker"}
    /\ enSpawn.spawned
    /\ ~enSpawn.parallel
    /\ ~enSpawn.redo
    /\ enSpawn.phase = 0 \/ ReviewsBetween(enSpawn.phase, Len(Phases))
    /\ enLog' = enLog \o Resolved(enSpawn)
    /\ enSpawn' = IF enSpawn.phase = 0
                  THEN SingleAgent(enSpawn.stage, enSpawn.role, enSpawn.fix, TRUE)
                  ELSE PhaseAgent(enSpawn.phase, TRUE)
    /\ UNCHANGED <<enOpts, enPc, enIdx, completedStages, revisionCount, stateJson,
                   historyJson, enVerdict, enRuns, enCoding, enStage>>
    /\ UNCHANGED notEng

\* A phase before the last is over (its worker's result or its redo's is
\* reviewed): the loop goes on to the next phase
NextPhase ==
    /\ enPc = "worker"
    /\ enSpawn.phase > 0
    /\ enSpawn.phase < Len(Phases)
    /\ enSpawn.spawned \/ enSpawn.approval = "skip"
    /\ enLog' = enLog \o Resolved(enSpawn)
    /\ enSpawn' = PhaseAgent(enSpawn.phase + 1, FALSE)
    /\ UNCHANGED <<enOpts, enPc, enIdx, completedStages, revisionCount, stateJson,
                   historyJson, enVerdict, enRuns, enCoding, enStage>>
    /\ UNCHANGED notEng

\* The stage's worker is done: completedStages.push(stage), then for a
\* review-type stage the revision loop, else saveProgress('running').
StageDone ==
    \E needsRevision \in BOOLEAN, outcome \in SaveOutcomes :
        LET stage == STAGES[enIdx].stage
            done == Append(completedStages, stage)
            review == stage \in {"reviewing", "securing"}
            fix == review /\ NeedsFix(needsRevision, revisionCount)
        IN  /\ enPc = "worker"
            /\ enSpawn.spawned \/ enSpawn.approval = "skip"
            /\ enSpawn.phase = 0 \/ enSpawn.phase = Len(Phases)
            /\ needsRevision => review /\ enSpawn.spawned
            /\ enLog' = enLog \o Resolved(enSpawn)
            /\ completedStages' = done
            /\ enVerdict' = IF review
                            THEN [stage |-> stage, needsRevision |-> needsRevision,
                                  countBefore |-> revisionCount, reentered |-> fix]
                            ELSE enVerdict
            /\ IF fix
               THEN /\ outcome = "ok"
                    /\ revisionCount' = revisionCount + 1
                    /\ enPc' = "fixWorker"
                    /\ setStage("coding")
                    /\ enSpawn' = SingleAgent("coding", "builder", TRUE, FALSE)
                    /\ UNCHANGED <<enIdx, stateJson, historyJson>>
               ELSE /\ Save("running", done, outcome)
                    /\ enSpawn' = NoSpawn
                    /\ UNCHANGED <<revisionCount, enStage>>
                    /\ IF outcome = "ok"
                       THEN enPc' = "stage" /\ enIdx' = enIdx + 1
                       ELSE Catch /\ UNCHANGED enIdx
            /\ UNCHANGED <<enOpts, enRuns, enCoding>>
            /\ UNCHANGED notEng

\* A revision that counts its coding as one more completed stage
AfterRevisionPushed(completed) == Append(completed, "coding")

\* completedStages after the builder of a revision: nothing is pushed
AfterRevision(completed) == completed

\* The builder of a revision is done: context.save, saveProgress('running')
FixDone ==
    \E outcome \in SaveOutcomes :
        /\ enPc = "fixWorker"
        /\ enSpawn.spawned \/ enSpawn.approval = "skip"
        /\ completedStages' = AfterRevision(completedStages)
        /\ Save("running", AfterRevision(completedStages), outcome)
        /\ enSpawn' = NoSpawn
        /\ IF outcome = "ok"
           THEN enPc' = "stage" /\ enIdx' = enIdx + 1
           ELSE Catch /\ UNCHANGED enIdx
        /\ enLog' = enLog \o Resolved(enSpawn)
        /\ UNCHANGED <<enOpts, revisionCount, enVerdict, enRuns, enCoding, enStage>>
        /\ UNCHANGED notEng

\* The answer to the approval request: 'approve' spawns the worker, 'skip'
\* resolves an empty successful result, 'abort' throws 'Aborted by user'.
Answer ==
    \E response \in {"approve", "skip", "abort"} :
        /\ enPc \in {"worker", "fixWorker"}
        /\ enSpawn.approval = "requested"
        /\ IF response = "abort"
           THEN Catch /\ enSpawn' = NoSpawn
           ELSE /\ enSpawn' = [enSpawn EXCEPT !.approval = response,
                                              !.spawned = (response = "approve")]
                /\ UNCHANGED enPc
        /\ UNCHANGED <<enOpts, enIdx, completedStages, revisionCount, stateJson,
                       historyJson, enVerdict, enRuns, enCoding, enLog, enStage>>
        /\ UNCHANGED notEng

\* A worker's 'error': the promise rejects and the stage throws
StageThrows ==
    /\ enPc \in {"worker", "fixWorker"}
    /\ enSpawn.spawned
    /\ Catch
    /\ enSpawn' = NoSpawn
    /\ UNCHANGED <<enOpts, enIdx, completedStages, revisionCount, stateJson,
                   historyJson, enVerdict, enRuns, enCoding, enLog, enStage>>
    /\ UNCHANGED notEng

\* setStage('complete'); supervisor.stop(); saveProgress('complete'); return
Finish ==
    \E outcome \in SaveOutcomes :
        /\ enPc = "stage"
        /\ enIdx = PastLast
        /\ setStage("complete")
        /\ Save("complete", completedStages, outcome)
        /\ IF outcome = "ok" THEN enPc' = "returnedTrue" ELSE Catch
        /\ UNCHANGED <<enOpts, enIdx, completedStages, revisionCount, enSpawn,
                       enVerdict, enRuns, enCoding, enLog>>
        /\ UNCHANGED notEng

\* await saveProgress('failed').catch(() => {}); return { success: false }
CatchSave ==
    \E outcome \in SaveOutcomes :
        /\ enPc = "catching"
        /\ Save("failed", completedStages, outcome)
        /\ enPc' = "returnedFalse"
        /\ UNCHANGED <<enOpts, enIdx, completedStages, revisionCount, enSpawn,
                       enVerdict, enRuns, enCoding, enLog, enStage>>
        /\ UNCHANGED notEng

\* setupGracefulShutdown: SIGINT or SIGTERM while run() is under way.  The
\* handler kills the workers and the process exits; nothing is saved.
GlobalAbort ==
    /\ enPc \in {"stage", "worker", "fixWorker", "catching"}
    /\ enPc' = "exited"
    /\ enSpawn' = NoSpawn
    /\ UNCHANGED <<enOpts, enIdx, completedStages, revisionCount, stateJson,
                   historyJson, enVerdict, enRuns, enCoding, enLog, enStage>>
    /\ UNCHANGED notEng

EngNext ==
    \/ Run
    \/ PassStage
    \/ StartStage
    \/ RedoAgent
    \/ NextPhase
    \/ Answer
    \/ StageDone
    \/ FixDone
    \/ StageThrows
    \/ Finish
    \/ CatchSave
    \/ GlobalAbort

(***************************************************************************)
(* parsePlan: the ASSIGN blocks and the MODULE blocks of a planning text   *)
(***************************************************************************)

\* The planning text is a sequence of tokens: the two markers, a line
\* break, a blank, words (runs of \w characters) and a punctuation mark.
AssignMarker == "### ASSIGN:"

ModuleMarker == "### MODULE:"

LineBreak == "\n"

Blank == " "

WordTokens == {"BUILDER", "builder", "PIXEL", "DESIGNER", "FOO", "QA", "LEAD",
               "x", "y", "m1"}

Tokens == WordTokens \cup {AssignMarker, ModuleMarker, LineBreak, Blank, "!"}

\* \s
Spaces == {Blank, LineBreak}

IsSpace(t) == t \in Spaces

\* \w
IsWord(t) == t \in WordTokens

\* [\w\s]*? followed by [\n\r]: the label ends at the first line break, and
\* at any token that is neither a word nor a space
EndsLabel == {LineBreak} \cup (Tokens \ (WordTokens \cup Spaces))

RECURSIVE Spell(_)
\* The string a sequence of tokens is
Spell(tokens) == IF tokens = <<>> THEN "" ELSE Head(tokens) \o Spell(Tail(tokens))

\* The first position from i on that ends the text or holds one of the
\* tokens of ends
Upto(text, i, ends) ==
    CHOOSE j \in i..(Len(text) + 1) :
        /\ j = Len(text) + 1 \/ text[j] \in ends
        /\ \A k \in i..(j - 1) : text[k] \notin ends

\* String.prototype.trim
Trim(tokens) ==
    LET solid == {n \in 1..Len(tokens) : ~IsSpace(tokens[n])}
    IN  IF solid = {} THEN <<>>
        ELSE SubSeq(tokens, CHOOSE a \in solid : \A b \in solid : a <= b,
                            CHOOSE a \in solid : \A b \in solid : a >= b)

\* String.prototype.toUpperCase on the word tokens
toUpperCase(t) ==
    CASE t = "builder" -> "BUILDER"
      [] t = "analyst"    -> "ANALYST"
      [] t = "strategist" -> "STRATEGIST"
      [] t = "designer"   -> "DESIGNER"
      [] t = "architect"  -> "ARCHITECT"
      [] t = "qa"         -> "QA"
      [] t = "guardian"   -> "GUARDIAN"
      [] t = "sentinel"   -> "SENTINEL"
      [] t = "security"   -> "SECURITY"
      [] t = "scribe"     -> "SCRIBE"
      [] t = "devops"     -> "DEVOPS"
      [] t = "x"       -> "X"
      [] t = "y"       -> "Y"
      [] t = "m1"      -> "M1"
      [] OTHER         -> t

ROLE_KEY_MAP ==
    ("ANALYST" :> "analyst") @@ ("STRATEGIST" :> "strategist") @@
    ("DESIGNER" :> "designer") @@ ("PIXEL" :> "designer") @@
    ("ARCHITECT" :> "architect") @@ ("BLUEPRINT" :> "architect") @@
    ("BUILDER" :> "builder") @@ ("QA" :> "qa") @@ ("QA LEAD" :> "qa") @@
    ("GUARDIAN" :> "guardian") @@ ("TESTER" :> "guardian") @@
    ("SENTINEL" :> "sentinel") @@ ("REVIEWER" :> "sentinel") @@
    ("SECURITY" :> "security") @@ ("SHIELD" :> "security") @@
    ("SCRIBE" :> "scribe") @@ ("DOCS" :> "scribe") @@ ("DOCUMENTATION" :> "scribe") @@
    ("DEVOPS" :> "devops") @@ ("DEPLOY" :> "devops") @@ ("DEPLOYMENT" :> "devops")

\* A Map that keeps the first value set for a key.
MapKeepFirst(map, key, value) ==
    IF \E n \in 1..Len(map) : map[n].key = key
    THEN map
    ELSE Append(map, [key |-> key, value |-> value])

\* Map.prototype.set: a Map is its entries in insertion order; a key that
\* is present keeps its place and takes the new value
MapSet(map, key, value) ==
    IF \E n \in 1..Len(map) : map[n].key = key
    THEN [n \in 1..Len(map) |->
            IF map[n].key = key THEN [key |-> key, value |-> value] ELSE map[n]]
    ELSE Append(map, [key |-> key, value |-> value])

NoMatch == [found |-> FALSE, name |-> <<>>, body |-> <<>>, lastIndex |-> 0]

\* assignRegex.exec at a marker at position i:
\* ###\s*ASSIGN\s*:\s*(\w[\w\s]*?)[\n\r]([\s\S]*?)(?=###\s*ASSIGN\s*:|$)
ExecAssign(text, i) ==
    LET p == Upto(text, i + 1, Tokens \ Spaces)
    IN  IF p > Len(text) \/ ~IsWord(text[p]) THEN NoMatch
        ELSE LET q == Upto(text, p + 1, EndsLabel)
             IN  IF q > Len(text) \/ text[q] # LineBreak THEN NoMatch
                 ELSE LET e == Upto(text, q + 1, {AssignMarker})
                      IN  [found |-> TRUE, name |-> SubSeq(text, p, q - 1),
                           body |-> SubSeq(text, q + 1, e - 1), lastIndex |-> e]

RECURSIVE ScanAssign(_, _, _)
\* while ((match = assignRegex.exec(planText)) !== null) { ... }
ScanAssign(text, i, assignments) ==
    IF i > Len(text) THEN assignments
    ELSE IF text[i] # AssignMarker THEN ScanAssign(text, i + 1, assignments)
    ELSE LET match == ExecAssign(text, i)
             label == Trim(match.name)
             rawRole == Spell([n \in 1..Len(label) |-> toUpperCase(label[n])])
             taskBody == Spell(Trim(match.body))
         IN  IF ~match.found THEN ScanAssign(text, i + 1, assignments)
             ELSE ScanAssign(text, match.lastIndex,
                             IF rawRole \in DOMAIN ROLE_KEY_MAP /\ taskBody # ""
                             THEN MapSet(assignments, ROLE_KEY_MAP[rawRole], taskBody)
                             ELSE assignments)

\* moduleRegex.exec at a marker at position i:
\* ### MODULE:\s*(.+?)(?:\n|$)([\s\S]*?)(?=### MODULE:|$)
\* The greedy \s* gives back as much as the name needs: the name starts at
\* the last position of the run of spaces (or right after it) that holds a
\* token other than a line break.
ExecModule(text, i) ==
    LET run == Upto(text, i + 1, Tokens \ Spaces)
        starts == {p \in (i + 1)..run : p <= Len(text) /\ text[p] # LineBreak}
    IN  IF starts = {} THEN NoMatch
        ELSE LET p == CHOOSE a \in starts : \A b \in starts : a >= b
                 q == Upto(text, p + 1, {LineBreak})
                 from == IF q <= Len(text) THEN q + 1 ELSE q
                 e == Upto(text, from, {ModuleMarker})
             IN  [found |-> TRUE, name |-> SubSeq(text, p, q - 1),
                  body |-> SubSeq(text, from, e - 1), lastIndex |-> e]

RECURSIVE ScanModules(_, _, _)
\* while ((match = moduleRegex.exec(text)) !== null) modules.push(...)
ScanModules(text, i, modules) ==
    IF i > Len(text) THEN modules
    ELSE IF text[i] # ModuleMarker THEN ScanModules(text, i + 1, modules)
    ELSE LET match == ExecModule(text, i)
         IN  IF ~match.found THEN ScanModules(text, i + 1, modules)
             ELSE ScanModules(text, match.lastIndex,
                              Append(modules, Spell(Trim(match.name)) \o "\n"
                                                \o Spell(Trim(match.body))))

\* A module list that outlives the call: the modules of the last plan parsed.
CarriedModules == IF plans = <<>> THEN <<>> ELSE plans[Len(plans)].modules

\* const modules: string[] = []
FreshModules == <<>>

extractModules(text) == ScanModules(text, 1, FreshModules)

\* parsePlan(planText); the overview, which no caller reads, is left out
parsePlan(text) ==
    [raw |-> Spell(text),
     assignments |-> ScanAssign(text, 1, <<>>),
     modules |-> extractModules(text)]

\* The planning texts parsed: up to MaxBlocks ASSIGN blocks after a first
\* line, each a marker, a label, a line break and a body.  Every label
\* carries the role key the alias table gives it (Null: none), every body
\* the text it holds between its surrounding white space.
MaxBlocks == 2

MaxParses == 2

LabelChoices ==
    { [tokens |-> <<Blank, "builder", Blank>>, key |-> "builder"],
      [tokens |-> <<"PIXEL">>,                 key |-> "designer"],
      [tokens |-> <<"DESIGNER">>,              key |-> "designer"],
      [tokens |-> <<"QA", Blank, "LEAD">>,     key |-> "qa"],
      [tokens |-> <<"FOO">>,                   key |-> Null],
      [tokens |-> <<"BUILDER", "!">>,          key |-> Null],
      [tokens |-> <<>>,                        key |-> Null] }

BodyChoices ==
    { [tokens |-> <<"x">>,                     text |-> "x"],
      [tokens |-> <<Blank, "y", LineBreak>>,   text |-> "y"],
      [tokens |-> <<Blank, LineBreak>>,        text |-> ""],
      [tokens |-> <<"x", LineBreak, ModuleMarker, Blank, "m1", LineBreak, "y", LineBreak>>,
       text |-> "x\n### MODULE: m1\ny"] }

BlockChoices == [label : LabelChoices, body : BodyChoices]

FirstLine == <<"x", Blank, "y", LineBreak>>

RECURSIVE Render(_)
Render(blocks) ==
    IF blocks = <<>> THEN FirstLine
    ELSE Render(SubSeq(blocks, 1, Len(blocks) - 1))
           \o <<AssignMarker>> \o blocks[Len(blocks)].label.tokens
           \o <<LineBreak>> \o blocks[Len(blocks)].body.tokens

PlanIdle == planBlocks = <<>> /\ planText = <<>> /\ plans = <<>>

PlanInit ==
    /\ planBlocks \in UNION {[1..n -> BlockChoices] : n \in 0..MaxBlocks}
    /\ planText = Render(planBlocks)
    /\ plans = <<>>

\* const plan = parsePlan(planText)
ParsePlan ==
    /\ Len(plans) < MaxParses
    /\ plans' = Append(plans, parsePlan(planText))
    /\ UNCHANGED <<planBlocks, planText>>
    /\ UNCHANGED notPlan

PlanNext == ParsePlan

(***************************************************************************)
(* ContextManager: the outputs stored per role and buildContext            *)
(***************************************************************************)

Undefined == "undefined"

order == <<"analyst", "strategist", "designer", "architect", "builder", "qa",
           "guardian", "sentinel", "security", "scribe", "devops">>

OrderRoles == {order[i] : i \in 1..Len(order)}

\* Role arguments are written as tokens: a name, then dashes and what
\* follows them
Dash == "-"

DigitTokens == {"0", "12"}

\* upToRole.replace(/-\d+$/, '')
stripSuffix(tokens) ==
    IF /\ Len(tokens) >= 2
       /\ tokens[Len(tokens) - 1] = Dash
       /\ tokens[Len(tokens)] \in DigitTokens
    THEN SubSeq(tokens, 1, Len(tokens) - 2)
    ELSE tokens

\* Array.prototype.indexOf, counting from 0
indexOf(arr, x) ==
    IF \E i \in 1..Len(arr) : arr[i] = x
    THEN (CHOOSE i \in 1..Len(arr) :
              arr[i] = x /\ \A j \in 1..(i - 1) : arr[j] # x) - 1
    ELSE -1

ContextHeader == "# Context from previous agents:\n"

SectionLabel(role) == "\n## Output from " \o toUpperCase(role) \o ":\n"

\* The loop of buildContext running up to the role itself
LoopThrough(idx) == 0..idx

\* for (let i = 0; i < idx; i++)
LoopBefore(idx) == 0..(idx - 1)

\* The pieces the loop appends to ctx for the positions from i on
RECURSIVE Appended(_, _, _)
Appended(memory, i, idx) ==
    IF i \notin LoopBefore(idx) THEN <<>>
    ELSE LET content == memory[order[i + 1]]
         IN (IF content # Undefined /\ content # ""
             THEN <<SectionLabel(order[i + 1]), content \o "\n">>
             ELSE <<>>) \o Appended(memory, i + 1, idx)

\* The string buildContext returns, as the sequence of the pieces it is
\* concatenated from; the empty sequence is the empty string
buildContext(memory, upToRole) ==
    LET baseRole == Spell(stripSuffix(upToRole))
        idx      == indexOf(order, baseRole)
    IN  IF idx <= 0 THEN <<>>
        ELSE <<ContextHeader>> \o Appended(memory, 0, idx)

MaxSaves == 2

SavedContents == {"", "v1"}

\* The arguments of buildContext, each with the role of order it stands for
RoleChoices ==
    {[tokens |-> <<r>>, base |-> r] :
        r \in {"analyst", "strategist", "architect", "builder", "devops"}} \cup
    {[tokens |-> <<"builder", Dash, "0">>,  base |-> "builder"],
     [tokens |-> <<"builder", Dash, "12">>, base |-> "builder"],
     [tokens |-> <<"analyst", Dash, "0">>,  base |-> "analyst"],
     [tokens |-> <<"devops", Dash, "0">>,   base |-> "devops"],
     [tokens |-> <<"builder", Dash, "x">>,  base |-> Null],
     [tokens |-> <<"builder", Dash, "0", Dash, "x">>, base |-> Null],
     [tokens |-> <<"conductor">>,           base |-> Null]}

NoContext == [role |-> [tokens |-> <<>>, base |-> Null], result |-> <<>>]

CtxIdle ==
    /\ ctxMemory = [r \in OrderRoles |-> Undefined]
    /\ ctxHistory = [r \in OrderRoles |-> Undefined]
    /\ ctxCall = NoContext
    /\ ctxSaves = 0

\* save(role, content): the memory first, then the two files; a write that
\* fails rejects the call with the memory already set
ContextSave(role, content, written) ==
    /\ ctxSaves < MaxSaves
    /\ ctxSaves' = ctxSaves + 1
    /\ ctxMemory' = [ctxMemory EXCEPT ![role] = content]
    /\ ctxHistory' = IF written THEN [ctxHistory EXCEPT ![role] = content]
                     ELSE ctxHistory
    /\ UNCHANGED <<ctxCall, notCtx>>

BuildContext(role) ==
    /\ ctxCall' = [role |-> role, result |-> buildContext(ctxMemory, role.tokens)]
    /\ UNCHANGED <<ctxMemory, ctxHistory, ctxSaves, notCtx>>

CtxNext ==
    \/ \E role \in OrderRoles, content \in SavedContents, written \in BOOLEAN :
           ContextSave(role, content, written)
    \/ \E role \in RoleChoices : BuildContext(role)

(***************************************************************************)
(* SharedMemory: the sections in memory and their files in .krenk/shared.  *)
(* A text is the sequence of the pieces it is concatenated from.           *)
(***************************************************************************)

NoneYet == "None yet"

TimeString == "10:00:00"

CoreSections == {"brain", "status", "learnings", "blockers", "decisions"}

\* The progress sections of the roles that report progress here
ProgressRoles == {"builder", "guardian"}

InitialContent(section) ==
    CASE section = "brain"     -> <<"# Master Brain Directives\n\n_No directives yet._\n">>
      [] section = "status"    -> <<"# Agent Status\n\n_Starting..._\n">>
      [] section = "learnings" -> <<"# Team Learnings\n\n">>
      [] section = "blockers"  -> <<"# Known Blockers\n\n_", NoneYet, "._\n">>
      [] section = "decisions" -> <<"# Decisions Log\n\n">>

\* store.get(section) || ''
storeGet(store, section) ==
    IF section \in DOMAIN store THEN store[section] ELSE <<>>

\* Map.prototype.set, and the write of a file by its name
storeSet(store, key, content) ==
    [k \in DOMAIN store \cup {key} |-> IF k = key THEN content ELSE store[k]]

FileName(name) == name \o ".md"

\* A write that creates the file and never overwrites it
writeOnce(disk, name, content, ok) ==
    IF ok /\ FileName(name) \notin DOMAIN disk
    THEN storeSet(disk, FileName(name), content) ELSE disk

\* writeToDisk: writeFileSync, an error logged and swallowed
writeToDisk(disk, name, content, ok) ==
    IF ok THEN storeSet(disk, FileName(name), content) ELSE disk

\* content.includes('None yet')
includesNoneYet(content) == \E i \in 1..Len(content) : content[i] = NoneYet

\* const updated = content.includes('None yet') ? ... : content + ...
BlockersWith(content, role, blocker) ==
    IF includesNoneYet(content)
    THEN <<"# Known Blockers\n\n">> \o <<"- [", role, "] ">> \o blocker \o <<"\n">>
    ELSE content \o <<"- [", role, "] ">> \o blocker \o <<"\n">>

statusIcon(status) ==
    CASE status = "active" -> ">"
      [] status = "done"   -> "+"
      [] status = "failed" -> "x"
      [] status = "idle"   -> "-"
      [] OTHER             -> "?"

\* The lines of the agents, each after the '\n' that joins it; the dash
\* before the info is written "--" here
RECURSIVE StatusLines(_)
StatusLines(list) ==
    IF list = <<>> THEN <<>>
    ELSE LET a == Head(list)
         IN <<"\n", statusIcon(a.status), " **", a.name, "**: ", a.status>> \o
            (IF a.info # "" THEN <<" -- ", a.info>> ELSE <<>>) \o
            StatusLines(Tail(list))

\* lines.join('\n') + '\n' of updateAgentStatus
StatusText(list) ==
    <<"# Agent Status\n", "\n", "_Updated: ", TimeString, "_\n">> \o
    StatusLines(list) \o <<"\n">>

MaxOps == 3

PlainText == <<"disk full">>

BlockerTexts == {PlainText, <<"Error detected in builder: FATAL ERROR: ", NoneYet, " handled">>}

AgentLists ==
    {<<>>,
     <<[role |-> "builder", name |-> "Builder", status |-> "active", info |-> ""],
       [role |-> "guardian", name |-> "Guardian", status |-> "queued", info |-> "waiting"]>>}

NoOp == [op |-> None, key |-> None, content |-> <<>>, written |-> TRUE, emitted |-> FALSE]

\* After the constructor: the five core sections written, with the files
\* the writes that succeeded have left
SmInit ==
    /\ smStore = [s \in CoreSections |-> InitialContent(s)]
    /\ \E failed \in {{}, {"status"}} :
          /\ smDisk = [f \in {FileName(s) : s \in CoreSections \ failed} |->
                          InitialContent(CHOOSE s \in CoreSections : FileName(s) = f)]
          /\ smStale = {FileName(s) : s \in failed}
    /\ smLast = NoOp
    /\ smBlockers = <<>>
    /\ smOps = 0

SmIdle ==
    /\ smStore = [s \in CoreSections |-> InitialContent(s)]
    /\ smDisk = [f \in {FileName(s) : s \in CoreSections} |->
                    InitialContent(CHOOSE s \in CoreSections : FileName(s) = f)]
    /\ smStale = {}
    /\ smLast = NoOp
    /\ smBlockers = <<>>
    /\ smOps = 0

\* One mutation: the store, then the file, then the 'update' event if the
\* method emits one
Mutation(op, key, name, content, ok, emits) ==
    /\ smOps < MaxOps
    /\ smOps' = smOps + 1
    /\ smStore' = storeSet(smStore, key, content)
    /\ smDisk' = writeToDisk(smDisk, name, content, ok)
    /\ smStale' = IF ok THEN smStale \ {FileName(name)}
                  ELSE smStale \cup {FileName(name)}
    /\ smLast' = [op |-> op, key |-> key, content |-> content, written |-> ok,
                  emitted |-> emits]
    /\ UNCHANGED notSm

writeSection(op, section, content, ok) ==
    Mutation(op, section, section, content, ok, TRUE)

appendSection(op, section, line, ok) ==
    Mutation(op, section, section, storeGet(smStore, section) \o line \o <<"\n">>,
             ok, TRUE)

WriteSection(section, content, ok) ==
    /\ writeSection("writeSection", section, content, ok)
    /\ UNCHANGED smBlockers

AppendSection(section, line, ok) ==
    /\ appendSection("appendSection", section, line, ok)
    /\ UNCHANGED smBlockers

UpdateAgentStatus(list, ok) ==
    /\ writeSection("updateAgentStatus", "status", StatusText(list), ok)
    /\ UNCHANGED smBlockers

WriteAgentProgress(role, content, ok) ==
    /\ Mutation("writeAgentProgress", "agent-" \o role, role, content, ok, FALSE)
    /\ UNCHANGED smBlockers

WriteDirective(directive, ok) ==
    /\ appendSection("writeDirective", "brain",
                     <<"\n---\n">> \o directive \o <<"\n">>, ok)
    /\ UNCHANGED smBlockers

LogDecision(decision, ok) ==
    /\ appendSection("logDecision", "decisions",
                     <<"- [", TimeString, "] ">> \o decision \o <<"\n">>, ok)
    /\ UNCHANGED smBlockers

LogLearning(learning, ok) ==
    /\ appendSection("logLearning", "learnings",
                     <<"- ">> \o learning \o <<"\n">>, ok)
    /\ UNCHANGED smBlockers

LogBlocker(role, blocker, ok) ==
    /\ writeSection("logBlocker", "blockers",
                    BlockersWith(storeGet(smStore, "blockers"), role, blocker), ok)
    /\ smBlockers' = Append(smBlockers, <<"- [", role, "] ">> \o blocker \o <<"\n">>)

SmNext ==
    \/ \E ok \in BOOLEAN : WriteSection("learnings", <<"# Team Learnings\n\n">>, ok)
    \/ \E ok \in BOOLEAN : AppendSection("decisions", PlainText, ok)
    \/ \E list \in AgentLists, ok \in BOOLEAN : UpdateAgentStatus(list, ok)
    \/ \E role \in ProgressRoles, ok \in BOOLEAN :
           WriteAgentProgress(role, PlainText, ok)
    \/ \E ok \in BOOLEAN : WriteDirective(PlainText, ok)
    \/ \E ok \in BOOLEAN : LogDecision(PlainText, ok)
    \/ \E ok \in BOOLEAN : LogLearning(PlainText, ok)
    \/ \E blocker \in BlockerTexts, ok \in BOOLEAN : LogBlocker("builder", blocker, ok)

(***************************************************************************)
(* Engine.run up to the coding stage, interrupted and resumed by run id:   *)
(* the plan, the stored outputs and the module list of the coding stage.   *)
(* Outputs are texts as parsePlan reads them, sequences of tokens.         *)
(***************************************************************************)

ModuleBlock(name, body) == <<ModuleMarker, Blank, name, LineBreak, body, LineBreak>>

\* What the strategist and the architect may write: nothing, no MODULE
\* block, one block, two blocks, two other blocks
OutputTexts ==
    {<<>>,
     <<"x", LineBreak>>,
     ModuleBlock("m1", "x"),
     ModuleBlock("m1", "x") \o ModuleBlock("y", "x"),
     ModuleBlock("x", "y") \o ModuleBlock("y", "y")}

NoPlan == [set |-> FALSE, modules |-> <<>>]

NoModules == [known |-> FALSE, modules |-> <<>>]

NoFiles == [r \in {} |-> <<>>]

\* plan = parsePlan(output), as far as the coding stage reads it
PlanOf(text) == [set |-> TRUE, modules |-> extractModules(text)]

\* if (plan) { if (archModules.length > 0) plan.modules = archModules }
RefreshModules(plan, archModules) ==
    IF plan.set /\ Len(archModules) > 0
    THEN [plan EXCEPT !.modules = archModules] ELSE plan

\* The first lines of runCodingStage: the plan's modules, and the
\* architect's stored output if there are none
CodingModules(plan, memory) ==
    LET modules == IF plan.set THEN plan.modules ELSE <<>>
    IN  IF Len(modules) = 0
        THEN extractModules(IF "architect" \in DOMAIN memory
                            THEN memory["architect"] ELSE <<>>)
        ELSE modules

RsIdle ==
    /\ rsOutputs = [strategist |-> <<>>, architect |-> <<>>]
    /\ rsSkip = {}
    /\ rsPc = "idle"
    /\ rsPlan = NoPlan
    /\ rsMemory = NoFiles
    /\ rsHistory = NoFiles
    /\ rsCompleted = <<>>
    /\ rsResume = <<>>
    /\ rsResumed = FALSE
    /\ rsExpected = NoModules
    /\ rsUsed = NoModules

\* A new run: the outputs its workers will give, whether planning is skipped
RsInit ==
    /\ rsOutputs \in [strategist : OutputTexts, architect : OutputTexts]
    /\ rsSkip \in {{}, {"planning"}}
    /\ rsPc = "planning"
    /\ rsPlan = NoPlan
    /\ rsMemory = NoFiles
    /\ rsHistory = NoFiles
    /\ rsCompleted = <<>>
    /\ rsResume = <<>>
    /\ rsResumed = FALSE
    /\ rsExpected = NoModules
    /\ rsUsed = NoModules

RsRuns(stage) ==
    stage \notin rsSkip /\ \A n \in 1..Len(rsResume) : rsResume[n] # stage

\* The planning block: skipped or completed before, or the strategist's
\* output saved and parsed
RsPlanning ==
    /\ rsPc = "planning"
    /\ rsPc' = "architecting"
    /\ IF RsRuns("planning")
       THEN /\ rsMemory' = storeSet(rsMemory, "strategist", rsOutputs.strategist)
            /\ rsHistory' = storeSet(rsHistory, "strategist", rsOutputs.strategist)
            /\ rsCompleted' = Append(rsCompleted, "planning")
            /\ rsPlan' = PlanOf(rsOutputs.strategist)
       ELSE UNCHANGED <<rsMemory, rsHistory, rsCompleted, rsPlan>>
    /\ UNCHANGED <<rsOutputs, rsSkip, rsResume, rsResumed, rsExpected, rsUsed>>
    /\ UNCHANGED notRs

\* The architecture block: the architect's output saved, the plan's modules
\* refreshed from it, the progress saved
RsArchitecting ==
    /\ rsPc = "architecting"
    /\ rsPc' = "coding"
    /\ IF RsRuns("architecting")
       THEN /\ rsMemory' = storeSet(rsMemory, "architect", rsOutputs.architect)
            /\ rsHistory' = storeSet(rsHistory, "architect", rsOutputs.architect)
            /\ rsCompleted' = Append(rsCompleted, "architecting")
            /\ rsPlan' = RefreshModules(rsPlan, extractModules(rsOutputs.architect))
       ELSE UNCHANGED <<rsMemory, rsHistory, rsCompleted, rsPlan>>
    /\ UNCHANGED <<rsOutputs, rsSkip, rsResume, rsResumed, rsExpected, rsUsed>>
    /\ UNCHANGED notRs

\* The process ends before the coding block starts: what it held in memory
\* is gone, the files stay.  rsExpected keeps the module list the coding
\* stage was about to work with.
RsInterrupt ==
    /\ rsPc = "coding"
    /\ ~rsResumed
    /\ rsPc' = "interrupted"
    /\ rsExpected' = [known |-> TRUE, modules |-> CodingModules(rsPlan, rsMemory)]
    /\ rsPlan' = NoPlan
    /\ rsMemory' = NoFiles
    /\ UNCHANGED <<rsOutputs, rsSkip, rsHistory, rsCompleted, rsResume, rsResumed, rsUsed>>
    /\ UNCHANGED notRs

\* resume by run id: a new Engine with the persisted completedStages; run()
\* loads the history files into memory and parses the strategist's output
\* if there is one
RsResume ==
    /\ rsPc = "interrupted"
    /\ rsPc' = "planning"
    /\ rsResumed' = TRUE
    /\ rsResume' = rsCompleted
    /\ rsCompleted' = <<>>
    /\ rsMemory' = IF Len(rsCompleted) > 0 THEN rsHistory ELSE rsMemory
    /\ rsPlan' = IF /\ Len(rsCompleted) > 0
                    /\ "strategist" \in DOMAIN rsHistory
                    /\ rsHistory["strategist"] # <<>>
                 THEN PlanOf(rsHistory["strategist"]) ELSE NoPlan
    /\ UNCHANGED <<rsOutputs, rsSkip, rsHistory, rsExpected, rsUsed>>
    /\ UNCHANGED notRs

\* The coding block: runCodingStage settles its module list
RsCoding ==
    /\ rsPc = "coding"
    /\ rsPc' = "done"
    /\ rsUsed' = [known |-> TRUE, modules |-> CodingModules(rsPlan, rsMemory)]
    /\ UNCHANGED <<rsOutputs, rsSkip, rsPlan, rsMemory, rsHistory, rsCompleted,
                   rsResume, rsResumed, rsExpected>>
    /\ UNCHANGED notRs

RsNext == RsPlanning \/ RsArchitecting \/ RsInterrupt \/ RsResume \/ RsCoding

NoDirected == [role |-> None, pc |-> "idle"]

RdIdle == rdCall = NoDirected

MemIdle == CtxIdle /\ SmIdle /\ RsIdle /\ RdIdle

(***************************************************************************)
(* setupGracefulShutdown: SIGINT / SIGTERM while a run is under way        *)
(***************************************************************************)

ExitSeconds == 3

HostIdle == shuttingDown = FALSE /\ exitTimer = NoTimer /\ hostExited = FALSE

\* run() is about to start its second stage; the first stage's checkpoint
\* has been written.
EngMidRun ==
    /\ enOpts = [skipStages |-> <<>>, resumeCompleted |-> {}, errorListener |-> FALSE,
                 supervised |-> FALSE]
    /\ enPc = "stage"
    /\ enIdx = 2
    /\ completedStages = <<"analyzing">>
    /\ revisionCount = 0
    /\ stateJson = [status |-> "running", completedStages |-> <<"analyzing">>]
    /\ historyJson = stateJson
    /\ enSpawn = NoSpawn
    /\ enVerdict = NoVerdict
    /\ enRuns = 1
    /\ enCoding = NoCoding
    /\ enLog = <<>>
    /\ enStage = [current |-> "analyzing", previous |-> Null]

\* killAllAgents() as the handler calls it: forceKillChild on every active
\* child, activeChildren.clear()
HandlerKills ==
    /\ child' = [p \in Pids |->
                   IF p \in activeChildren THEN ForceKillSignals(child[p], isWindows)
                   ELSE child[p]]
    /\ killTimers' = killTimers \cup
                     {KillTimer(p, "spawner") :
                        p \in {q \in activeChildren : ForceArmsTimer(child[q], isWindows)}}
    /\ killInitAt' = InitiatedAt(activeChildren)
    /\ activeChildren' = {}

\* process.exit(code): the run ends where it is; nothing is written
ProcessExit ==
    /\ hostExited' = TRUE
    /\ enPc' = "exited"
    /\ UNCHANGED <<enOpts, enIdx, completedStages, revisionCount, stateJson,
                   historyJson, enSpawn, enVerdict, enRuns, enCoding, enLog, enStage>>

\* The first signal: engine.shutdown() (supervisor.stop(), scheduler.killAll(),
\* registry.killAll(), killAllAgents()), killAllAgents(), and the exit timer.
ShutdownSignal ==
    /\ ~hostExited
    /\ ~shuttingDown
    /\ shuttingDown' = TRUE
    /\ pollTimer' = NoTimer
    /\ HandlerKills
    /\ exitTimer' = now + ExitSeconds
    /\ Quiet
    /\ UNCHANGED <<now, isWindows, groupOk, tracked, killedEvents, warningEvents,
                   warnPolls, memOverAt, statVars, hostExited, engVars>>
    /\ UNCHANGED notHost

\* A second signal: killAllAgents(); process.exit(1)
ShutdownAgain ==
    /\ ~hostExited
    /\ shuttingDown
    /\ HandlerKills
    /\ ProcessExit
    /\ Quiet
    /\ UNCHANGED <<now, isWindows, groupOk, tracked, pollTimer, killedEvents,
                   warningEvents, warnPolls, memOverAt, statVars, shuttingDown,
                   exitTimer>>
    /\ UNCHANGED notHost

\* The exit timer, after the kill timers armed before it:
\* killAllAgents(); process.exit(130 or 143)
ExitTimerFires ==
    /\ ~hostExited
    /\ exitTimer = now
    /\ \A t \in killTimers : t.due # now
    /\ HandlerKills
    /\ ProcessExit
    /\ exitTimer' = NoTimer
    /\ Quiet
    /\ UNCHANGED <<now, isWindows, groupOk, tracked, pollTimer, killedEvents,
                   warningEvents, warnPolls, memOverAt, statVars, shuttingDown>>
    /\ UNCHANGED notHost

\* One worker of a run, the supervisor, the spawner and the signal handler;
\* once the process has exited none of its timers or listeners runs.
ShutdownNext ==
    \/ ~hostExited /\ SpawnAgent(1, TRUE) /\ UNCHANGED notSup
    \/ ~hostExited /\ Output(1) /\ UNCHANGED notSup
    \/ ~hostExited /\ Exit(1) /\ UNCHANGED notSup
    \/ ~hostExited /\ Close(1) /\ UNCHANGED notSup
    \/ ~hostExited /\ exitTimer # now /\ Tick /\ UNCHANGED notSup
    \/ ~hostExited /\ RunChecks /\ UNCHANGED notSup
    \/ ~hostExited /\ SupKillTimer /\ UNCHANGED notSup
    \/ ~hostExited /\ SpawnerKillTimer /\ UNCHANGED notSup
    \/ ShutdownSignal
    \/ ShutdownAgain
    \/ ExitTimerFires

\* A new run without skip list, with a listener for 'error'
EngFullRun ==
    /\ EngInit
    /\ enOpts.skipStages = <<>>
    /\ enOpts.resumeCompleted = {}
    /\ enOpts.errorListener

\* A whole run and the signal handler: engine.shutdown() sets nothing that
\* run() reads, so run() goes on until process.exit
RunShutdownNext ==
    \/ ~hostExited /\ EngNext
    \/ ~hostExited /\ shuttingDown /\ exitTimer # now /\ Tick /\ UNCHANGED notSup
    \/ ShutdownSignal
    \/ ShutdownAgain
    \/ ExitTimerFires

(***************************************************************************)
(* Director: MasterBrain.reviewOutput                                      *)
(***************************************************************************)

\* The roles the Director is exercised with: two roles that have a quality
\* check and one that has none.
Roles == {"strategist", "guardian", "builder"}

MAX_REDOS == 2

\* Trimmed lengths of a worker's output around the 50-character threshold.
OutputLens == {0, 49, 50}

\* An output is its trimmed length and the quality patterns it matches:
\* "structure" for /file|directory|structure/i, "tasks" for
\* /task|step|todo|\- \[/i, "tests" for /pass|fail|test/i.
QualityMarks == {"structure", "tasks", "tests"}

Outputs == {o \in [len : OutputLens, marks : SUBSET QualityMarks] :
               o.len = 0 => o.marks = {}}

EmptyOutput == [len |-> 0, marks |-> {}]

AgentResults == [output : Outputs, success : BOOLEAN]

\* The minimal-output test with the threshold itself counted as minimal.
IsMinimalLoose(output) == output.len <= 50

\* !result.output || result.output.trim().length < 50
IsMinimal(output) == output.len < 50

\* checkQuality: the note of the failed expectation, or None
checkQuality(role, output) ==
    IF role = "architect" /\ "structure" \notin output.marks
    THEN "Missing file structure / directory layout"
    ELSE IF role = "strategist" /\ "tasks" \notin output.marks
    THEN "Missing concrete tasks"
    ELSE IF role = "guardian" /\ "tests" \notin output.marks
    THEN "Missing test results"
    ELSE None

\* A bug the redo guard could have: one redo too many.
CanRedoOffByOne(redos) == redos <= MAX_REDOS

\* redos < this.MAX_REDOS
CanRedo(redos) == redos < MAX_REDOS

\* The decision of reviewOutput: the verdict, its notes, and whether the role
\* is marked completed (with the status board regenerated).
Review(role, result, redos) ==
    IF IsMinimal(result.output)
    THEN IF result.success
         THEN [verdict |-> "accept", notes |-> "Minimal output", completes |-> TRUE]
         ELSE IF CanRedo(redos)
         THEN [verdict |-> "redo", notes |-> "Failed with no output", completes |-> FALSE]
         ELSE [verdict |-> "accept", notes |-> "Max redos reached", completes |-> TRUE]
    ELSE IF ~result.success /\ CanRedo(redos)
    THEN [verdict |-> "redo", notes |-> "Failed", completes |-> FALSE]
    ELSE IF checkQuality(role, result.output) # None /\ CanRedo(redos)
    THEN [verdict |-> "redo", notes |-> checkQuality(role, result.output),
          completes |-> FALSE]
    ELSE [verdict |-> "accept", notes |-> "OK", completes |-> TRUE]

\* An outcome that asks for a redo while the budget lasts: a failed result
\* (empty or not) or a failed quality check.
Disqualifying(role, result) ==
    \/ ~result.success
    \/ ~IsMinimal(result.output) /\ checkQuality(role, result.output) # None

\* updateStatusBoard: done / active / idle for every role
BoardOf(completed, active) ==
    [r \in Roles |-> IF r \in completed THEN "done"
                     ELSE IF r \in active THEN "active" ELSE "idle"]

\* monitorOutput returns null
NoIntervention == [type |-> Null, role |-> Null, reason |-> Null]

\* No call of monitorOutput yet
NoMonitor == [role |-> None, chunk |-> [text |-> None, len |-> 0],
              returned |-> NoIntervention, emitted |-> None,
              blocker |-> FALSE, directive |-> FALSE, progress |-> FALSE]

DirInit ==
    /\ redoCounts = [r \in Roles |-> 0]
    /\ completedRoles = {}
    /\ activeRoles = {}
    /\ agentOutputs = {}
    /\ statusBoard = [r \in Roles |-> "idle"]
    /\ lastReview = NoReview
    /\ redoIssued = [r \in Roles |-> 0]
    /\ agentLiveBuffer = [r \in Roles |-> 0]
    /\ lastMonitor = NoMonitor

\* prepareBrief(role, basePrompt)
PrepareBrief(role) ==
    /\ activeRoles' = activeRoles \cup {role}
    /\ statusBoard' = BoardOf(completedRoles, activeRoles')
    /\ UNCHANGED <<redoCounts, completedRoles, agentOutputs, lastReview, redoIssued,
                   agentLiveBuffer, lastMonitor>>

\* reviewOutput(role, result)
ReviewOutput(role, result) ==
    LET redos == redoCounts[role]
        v == Review(role, result, redos)
    IN  /\ agentOutputs' = agentOutputs \cup {role}
        /\ agentLiveBuffer' = [agentLiveBuffer EXCEPT ![role] = 0]
        /\ activeRoles' = activeRoles \ {role}
        /\ UNCHANGED lastMonitor
        /\ redoCounts' = IF v.verdict = "redo"
                         THEN [redoCounts EXCEPT ![role] = redos + 1]
                         ELSE redoCounts
        /\ completedRoles' = IF v.completes THEN completedRoles \cup {role}
                             ELSE completedRoles
        /\ statusBoard' = IF v.completes
                          THEN BoardOf(completedRoles', activeRoles')
                          ELSE statusBoard
        /\ redoIssued' = IF v.verdict = "redo"
                         THEN [redoIssued EXCEPT ![role] = @ + 1]
                         ELSE redoIssued
        /\ lastReview' = [role |-> role, verdict |-> v.verdict, notes |-> v.notes,
                          redosBefore |-> redos,
                          disqualifying |-> Disqualifying(role, result)]

\* The chunks of live output monitorOutput is called with: a text and its
\* length
ChunkTexts == {"ok", "error: build failed", "error: test failed", "FATAL",
               "writing tests", "implementing feature",
               "permission denied while writing tests"}

ChunkLengths == {1000, 1001}

Chunks == [text : ChunkTexts, len : ChunkLengths]

\* The longest live buffer explored
MaxBufferLen == 2001

\* issuePatterns, each with the chunk texts its test() accepts
issuePatterns ==
    << [source |-> "error:\\s+(?!.*test|.*expect|.*assert)", accepts |-> {"error: build failed"}],
       [source |-> "FATAL",                  accepts |-> {"FATAL"}],
       [source |-> "panic:",                 accepts |-> {}],
       [source |-> "cannot find module",     accepts |-> {}],
       [source |-> "unhandled.*rejection",   accepts |-> {}],
       [source |-> "out of memory",          accepts |-> {}],
       [source |-> "maximum call stack",     accepts |-> {}],
       [source |-> "ENOSPC",                 accepts |-> {}],
       [source |-> "permission denied",
        accepts |-> {"permission denied while writing tests"}] >>

\* offTrackPatterns.get(role), for the roles of the model; no entry: <<>>
offTrackPatterns(role) ==
    CASE role = "builder" ->
           << [source |-> "writing tests",
               accepts |-> {"writing tests", "permission denied while writing tests"}],
              [source |-> "writing documentation", accepts |-> {}],
              [source |-> "reviewing code",        accepts |-> {}] >>
      [] role = "guardian" ->
           << [source |-> "implementing feature", accepts |-> {"implementing feature"}],
              [source |-> "refactoring",          accepts |-> {}] >>
      [] OTHER -> <<>>

\* The patterns of a list that accept the text, by position
Hits(patterns, text) == {n \in 1..Len(patterns) : text \in patterns[n].accepts}

\* The first of them
FirstHit(patterns, text) ==
    patterns[CHOOSE n \in Hits(patterns, text) : \A m \in Hits(patterns, text) : n <= m]

\* The off-track check from 2000 characters on.
LongEnoughAt(length) == length >= 2000

\* if (buffer.length > 2000)
LongEnough(length) == length > 2000

\* monitorOutput(role, chunk), the chunk being data
MonitorOutput(role, data) ==
    LET buffer == agentLiveBuffer[role] + data.len
        progress == buffer > 0 /\ buffer % 2000 < data.len
        fatal == Hits(issuePatterns, data.text) # {}
        offTrack == /\ ~fatal
                    /\ LongEnough(buffer)
                    /\ Hits(offTrackPatterns(role), data.text) # {}
    IN  /\ buffer <= MaxBufferLen
        /\ agentLiveBuffer' = [agentLiveBuffer EXCEPT ![role] = buffer]
        /\ lastMonitor' =
             [role |-> role, chunk |-> data,
              returned |-> IF offTrack
                           THEN [type |-> "warn", role |-> role,
                                 reason |-> FirstHit(offTrackPatterns(role), data.text).source]
                           ELSE NoIntervention,
              emitted |-> IF fatal THEN "error_detected"
                          ELSE IF offTrack THEN "off_track" ELSE None,
              blocker |-> fatal, directive |-> offTrack, progress |-> progress]
        /\ UNCHANGED <<redoCounts, completedRoles, activeRoles, agentOutputs,
                       statusBoard, lastReview, redoIssued>>

MonitorNext ==
    \E role \in Roles, data \in Chunks :
        MonitorOutput(role, data) /\ UNCHANGED notDir

DirNext ==
    \/ \E role \in Roles :
          PrepareBrief(role) /\ UNCHANGED notDir
    \/ \E role \in Roles, result \in AgentResults :
          ReviewOutput(role, result) /\ UNCHANGED notDir

\* runDirectedAgent(role, basePrompt) up to its first await: prepareBrief
DirectedStart(role) ==
    /\ rdCall.pc \in {"idle", "returned"}
    /\ PrepareBrief(role)
    /\ rdCall' = [role |-> role, pc |-> "first"]
    /\ UNCHANGED notRd

\* The first worker has ended: reviewOutput; on 'redo' prepareRedoPrompt
\* and the second worker, otherwise the call returns
DirectedFirst(result) ==
    /\ rdCall.pc = "first"
    /\ ReviewOutput(rdCall.role, result)
    /\ rdCall' = [rdCall EXCEPT !.pc = IF lastReview'.verdict = "redo"
                                       THEN "redo" ELSE "returned"]
    /\ UNCHANGED notRd

\* The second worker has ended: reviewOutput, its verdict dropped, return
DirectedRedo(result) ==
    /\ rdCall.pc = "redo"
    /\ ReviewOutput(rdCall.role, result)
    /\ rdCall' = [rdCall EXCEPT !.pc = "returned"]
    /\ UNCHANGED notRd

DirectedNext ==
    \/ \E role \in Roles : DirectedStart(role)
    \/ \E result \in AgentResults : DirectedFirst(result)
    \/ \E result \in AgentResults : DirectedRedo(result)

InitDirector == DirInit /\ SchedIdle /\ SupIdle /\ StatIdle /\ WfIdle /\ EngIdle /\ HostIdle /\ PlanIdle /\ MemIdle

SpecDirector == InitDirector /\ [][DirNext]_vars

\* The reviews alone, as the callers that review without a brief make them
ReviewNext ==
    \E role \in Roles, result \in AgentResults :
        ReviewOutput(role, result) /\ UNCHANGED notDir

SpecReview == InitDirector /\ [][ReviewNext]_vars

SpecMonitor == InitDirector /\ [][MonitorNext]_vars

SpecDirected == InitDirector /\ [][DirectedNext]_vars

InitSched == SchedInit /\ DirInit /\ SupIdle /\ StatIdle /\ WfIdle /\ EngIdle /\ HostIdle /\ PlanIdle /\ MemIdle

SpecSched == InitSched /\ [][SchedNext]_vars

InitSchedAny == SchedInitAny /\ DirInit /\ SupIdle /\ StatIdle /\ WfIdle /\ EngIdle /\ HostIdle /\ PlanIdle /\ MemIdle

SpecSchedAny == InitSchedAny /\ [][SchedNext]_vars

InitStatus == StatInit /\ DirInit /\ SchedIdle /\ SupIdle /\ WfIdle /\ EngIdle /\ HostIdle /\ PlanIdle /\ MemIdle

SpecStatus == InitStatus /\ [][StatNext]_vars

InitSup == SupInit /\ DirInit /\ SchedIdle /\ WfIdle /\ EngIdle /\ HostIdle /\ PlanIdle /\ MemIdle

SpecSup == InitSup /\ [][SupNext]_vars

InitKill == SupInit /\ SchedIdle /\ DirInit /\ WfIdle /\ EngIdle /\ HostIdle /\ PlanIdle /\ MemIdle

SpecKill == InitKill /\ [][KillNext]_vars

InitStages == WfIdle /\ DirInit /\ SchedIdle /\ SupIdle /\ StatIdle /\ EngIdle /\ HostIdle /\ PlanIdle /\ MemIdle

SpecStages == InitStages /\ [][StagesNext]_vars

InitSkip == SkipInit /\ StatIdle /\ DirInit /\ SchedIdle /\ SupIdle /\ EngIdle /\ HostIdle /\ PlanIdle /\ MemIdle

SpecSkip == InitSkip /\ [][SkipNext]_vars

InitEngine == EngInit /\ DirInit /\ SchedIdle /\ SupIdle /\ StatIdle /\ WfIdle /\ HostIdle /\ PlanIdle /\ MemIdle

SpecEngine == InitEngine /\ [][EngNext]_vars

\* The steps run() takes by itself between two awaits
EngineSteps == PassStage \/ StartStage \/ Finish \/ CatchSave

\* A spawned worker exits ('done') or errors
WorkerEnds == StageDone \/ NextPhase \/ FixDone \/ StageThrows

\* run() under the scheduling of the event loop: its own steps are taken,
\* every spawned worker eventually exits or errors, every approval request
\* is eventually answered.  Redos, signals and further runs are not forced.
EngFair == WF_vars(EngineSteps) /\ WF_vars(WorkerEnds) /\ WF_vars(Answer)

SpecEngineLive == InitEngine /\ [][EngNext]_vars /\ EngFair

InitPlan == PlanInit /\ DirInit /\ SchedIdle /\ SupIdle /\ StatIdle /\ WfIdle /\ EngIdle /\ HostIdle /\ MemIdle

SpecPlan == InitPlan /\ [][PlanNext]_vars

InitContext == CtxIdle /\ SmIdle /\ RsIdle /\ RdIdle /\ DirInit /\ SchedIdle /\ SupIdle /\ StatIdle /\ WfIdle /\ EngIdle /\ HostIdle /\ PlanIdle

SpecContext == InitContext /\ [][CtxNext]_vars

InitShared == SmInit /\ CtxIdle /\ RsIdle /\ RdIdle /\ DirInit /\ SchedIdle /\ SupIdle /\ StatIdle /\ WfIdle /\ EngIdle /\ HostIdle /\ PlanIdle

SpecShared == InitShared /\ [][SmNext]_vars

InitResume == RsInit /\ CtxIdle /\ SmIdle /\ RdIdle /\ DirInit /\ SchedIdle /\ SupIdle /\ StatIdle /\ WfIdle /\ EngIdle /\ HostIdle /\ PlanIdle

SpecResume == InitResume /\ [][RsNext]_vars

InitRunShutdown == SupInit /\ ~isWindows /\ groupOk /\ EngFullRun /\ HostIdle /\ DirInit /\ SchedIdle /\ WfIdle /\ PlanIdle /\ MemIdle

SpecRunShutdown == InitRunShutdown /\ [][RunShutdownNext]_vars

InitShutdown == SupInit /\ EngMidRun /\ HostIdle /\ DirInit /\ SchedIdle /\ WfIdle /\ PlanIdle /\ MemIdle

SpecShutdown == InitShutdown /\ [][ShutdownNext]_vars

(***************************************************************************)
(* Claims about the ProcessSupervisor and the kill escalation              *)
(***************************************************************************)

TermSignals == {"SIGTERM group", "SIGTERM child"}

KillSignals == {"SIGKILL group", "SIGKILL child"}

\* C6: a tracked process whose reported memory exceeds maxMemoryMB has its kill
\* initiated in the poll that reported it and is no longer alive once the grace
\* period after that poll has passed; exactly one 'killed' event is emitted for
\* it, and no process ever has more than one, also after a later killAll or
\* after the process has exited.
C6_MemoryKill ==
    \A p \in Pids :
        /\ killedEvents[p] <= 1
        /\ memOverAt[p] # Never =>
             /\ killedEvents[p] = 1
             /\ killInitAt[p] = memOverAt[p]
             /\ tracked[p] = NoEntry
             /\ now > memOverAt[p] + GraceSeconds => child[p].state # "alive"

\* C6 witness: a worker over the memory limit ignored SIGTERM and got SIGKILL
\* when the grace period ended; one 'killed' event.
C6_Witness ==
    \E p \in Pids :
        /\ memOverAt[p] # Never
        /\ now > memOverAt[p] + GraceSeconds
        /\ ~child[p].obeysTerm
        /\ "SIGKILL child" \in child[p].sigs
        /\ killedEvents[p] = 1

\* C7: a tracked process receives at most one 'warning' event, whatever the
\* number of polls and of warning conditions that hold.
C7_OneWarning == \A p \in Pids : warningEvents[p] <= 1

\* C7 witness: a second snapshot shows the process with two warning conditions
\* at once (no output and high memory), and it has had one warning.
C7_Witness ==
    \E p \in Pids :
        /\ warnPolls[p] = 2
        /\ supStats[p] # NoStat
        /\ supStats[p].age > limits.hungWarningSeconds
        /\ MemHigh(limits, supStats[p].mem)
        /\ tracked[p] # NoEntry
        /\ warningEvents[p] = 1

\* The reason r names a threshold that the stat s exceeds, with the measured
\* value and the limit.
ReasonNamesExceeded(l, s, r) ==
    \/ r.kind = "memory" /\ MemOver(l, s.mem)
       /\ r.measured = RoundMB(s.mem) /\ r.limit = l.maxMemoryMB
    \/ r.kind = "timeout" /\ s.uptime > l.maxTimeSeconds
       /\ r.measured = s.uptime /\ r.limit = l.maxTimeSeconds
    \/ r.kind = "hang" /\ s.age > l.hungKillSeconds
       /\ r.measured = s.age /\ r.limit = l.hungKillSeconds

\* C9: when a poll cycle ends, every process its snapshot shows as critical has
\* been killed in the cycle (a kill was initiated now), is no longer tracked, and
\* has one 'killed' event with its role and a reason naming an exceeded
\* threshold with the measured and the limit value; every process the snapshot
\* shows as not critical has no 'killed' event, no signal sent, and is tracked.
C9_CriticalKilled ==
    \A p \in Pids :
        supStats[p] # NoStat =>
            IF supStats[p].status = "critical"
            THEN /\ killedEvents[p] = 1
                 /\ killReason[p].role = RoleOf(p)
                 /\ ReasonNamesExceeded(limits, supStats[p], killReason[p])
                 /\ killInitAt[p] = now
                 /\ tracked[p] = NoEntry
            ELSE /\ killedEvents[p] = 0
                 /\ killReason[p] = NoReason
                 /\ killInitAt[p] = Never
                 /\ child[p].sigs = {}
                 /\ tracked[p] # NoEntry

\* C9 witness: one snapshot with a process killed for no output and another
\* process that stays tracked.
C9_Witness ==
    \E p \in Pids, q \in Pids :
        /\ supStats[p] # NoStat /\ supStats[p].status = "critical"
        /\ killReason[p].kind = "hang"
        /\ supStats[q] # NoStat /\ supStats[q].status = "warning"
        /\ tracked[q] # NoEntry

\* C10, on Unix: every kill initiated on a worker, by killProcess or by
\* forceKillChild, first sends SIGTERM to the process group, or to the child
\* alone when the group signal fails, and a worker still alive when the grace
\* period of 3 s has passed is sent SIGKILL, so that none is alive after it.
C10_Escalation ==
    ~isWindows =>
        \A p \in Pids :
            killInitAt[p] # Never =>
                /\ child[p].state = "alive" => child[p].sigs \cap TermSignals # {}
                /\ child[p].sigs \cap KillSignals # {} =>
                      child[p].sigs \cap TermSignals # {}
                /\ "SIGTERM child" \in child[p].sigs => ~groupOk
                /\ now > killInitAt[p] + GraceSeconds => child[p].state # "alive"

\* C11: every worker spawned during Engine.run, the parallel builders of the
\* Scheduler included, is tracked by the supervisor for as long as it lives and
\* no kill has been initiated on it.
C11_EveryWorkerTracked ==
    \A p \in Pids :
        child[p].state = "alive" /\ killInitAt[p] = Never => tracked[p] # NoEntry

\* C12: a call of ProcessSupervisor.killAll() leaves polling stopped and the
\* tracked set empty, and every process tracked at the call has one more
\* 'killed' event (its only one) and a kill initiated on it: a living one has
\* been sent SIGTERM or taskkill.  The health of the processes plays no part.
C12_KillAll ==
    [][SupKillAll =>
         /\ pollTimer' = NoTimer
         /\ TrackedPids' = {}
         /\ \A p \in TrackedPids :
               /\ killedEvents'[p] = killedEvents[p] + 1
               /\ killedEvents'[p] = 1
               /\ killReason'[p].kind = "shutdown"
               /\ killInitAt'[p] # Never
               /\ child[p].state = "alive" =>
                    child'[p].sigs \cap (TermSignals \cup {"taskkill /F"}) # {}
         /\ \A p \in Pids \ TrackedPids : killedEvents'[p] = killedEvents[p]]_vars

\* C12 witness: killAll has just killed two tracked processes, one that had
\* been warned and one that had not, and both were alive.
C12_Witness ==
    /\ \A p \in Pids : killReason[p].kind = "shutdown" /\ killInitAt[p] = now
    /\ \E p \in Pids, q \in Pids : warningEvents[p] = 1 /\ warningEvents[q] = 0
    /\ \A p \in Pids : child[p].sigs # {}
    /\ pollTimer = NoTimer
    /\ TrackedPids = {}

\* The successor of a stage in the order of STAGES, null after the last one.
LinearSuccessor(stage) ==
    LET i == CHOOSE k \in 1..Len(STAGES) : STAGES[k].stage = stage
    IN  IF i = Len(STAGES) THEN Null ELSE STAGES[i + 1].stage

\* C13: getNextStage(s, needsRevision) is 'coding' when needsRevision is true
\* and s is 'reviewing' or 'securing', and otherwise the successor of s in the
\* fixed order (null for 'complete'); the iteration from 'analyzing' with
\* needsRevision = false visits the twelve stages in order, each once, and
\* stops at 'complete'.
C13_NextStage ==
    /\ wfCall # NoCall =>
          wfCall.next =
             IF wfCall.needsRevision /\ wfCall.current \in {"reviewing", "securing"}
             THEN "coding"
             ELSE LinearSuccessor(wfCall.current)
    /\ Len(wfPath) <= Len(STAGES)
    /\ \A i \in 1..Len(wfPath) : wfPath[i] = STAGES[i].stage
    /\ \A i \in 1..Len(wfPath), j \in 1..Len(wfPath) : wfPath[i] = wfPath[j] => i = j
    /\ ~ENABLED WalkStage => Len(wfPath) = 12 /\ wfPath[Len(wfPath)] = "complete"

C13_Witness ==
    /\ wfCall.current = "securing" /\ wfCall.needsRevision /\ wfCall.next = "coding"
    /\ Len(wfPath) = 12
    /\ wfPath[12] = "complete"

\* C14: for every stage the three single-token skip lists (its stage id, its
\* role id, its lowercase label) all skip it, and adding any of the three
\* tokens to a skip list gives the same decision, whatever the list held.
C14_SkipTokens ==
    skCall.single # <<>> =>
        /\ \A k \in 1..3 : skCall.single[k] = TRUE
        /\ \A k \in 1..3, m \in 1..3 : skCall.added[k] = skCall.added[m]
        /\ \A k \in 1..3 : skCall.added[k] = TRUE

C14_Witness ==
    /\ skCall.stage = "qa-planning"
    /\ skCall.base = <<"QA">>
    /\ skCall.before = FALSE
    /\ skCall.added = <<TRUE, TRUE, TRUE>>

\* The elements of a list
Elements(list) == {list[i] : i \in 1..Len(list)}

\* run() has ended: it returned, it threw, or the process was aborted
RunEnded == enPc \in {"returnedTrue", "returnedFalse", "threw", "exited"}

\* C15: a run resumed with [analyzing, planning] completed, once complete, has
\* persisted a completedStages list that is the two original stages followed by
\* the stages it executed, in order and without duplicates.
C15_ResumeKeepsCompleted ==
    enPc = "returnedTrue" /\ enRuns = 1
        /\ enOpts.resumeCompleted = {"analyzing", "planning"} =>
            /\ stateJson.completedStages = <<"analyzing", "planning">> \o completedStages
            /\ historyJson.completedStages = stateJson.completedStages
            /\ Cardinality(Elements(stateJson.completedStages))
                 = Len(stateJson.completedStages)

Checkpointed(stage) ==
    /\ stateJson.status = "running"
    /\ historyJson.status = "running"
    /\ stage \in Elements(stateJson.completedStages)
    /\ stage \in Elements(historyJson.completedStages)

\* C17: whenever a worker runs, the builder of a revision re-entry included,
\* the stage last finished is in a persisted 'running' snapshot at both
\* locations.
C17_CheckpointBeforeAnySpawn ==
    enPc \in {"worker", "fixWorker"} /\ completedStages # <<>> =>
        Checkpointed(completedStages[Len(completedStages)])

\* C18: once run() has ended, by returning, by throwing or by a global abort,
\* the persisted run state is 'complete' or 'failed'.
C18_FinalStatus ==
    RunEnded =>
        /\ stateJson.status \in {"complete", "failed"}
        /\ historyJson.status \in {"complete", "failed"}

\* C19: when a stage has thrown inside Engine.run (here the coding stage, on a
\* builder's error), no later batch is started, a 'failed' run state has been
\* persisted, and no worker is left running without a kill.
C19_FaultAbortsRun ==
    engineRun \in {"returnedFalse", "threw"} =>
        /\ \A k \in 1..Len(batches) :
             k > batchIdx => \A q \in SeqRange(batches[k]) : taskState[q] = "pending"
        /\ persistedStatus = "failed"
        /\ running = {}

\* C20: once the abort handling has run to its end, a checkpoint marking the
\* run 'failed' has been written at both locations, and it was written before
\* the forced phase of the kill escalation reached any worker.
C20_AbortCheckpoint ==
    /\ hostExited =>
          stateJson.status = "failed" /\ historyJson.status = "failed"
    /\ shuttingDown /\ (\E p \in Pids : child[p].sigs \cap KillSignals # {}) =>
          stateJson.status = "failed" /\ historyJson.status = "failed"

\* C21: when the worker of a single-task stage cannot be launched, the stage
\* throws: the worker is not run again, run() stays at that stage block and
\* goes on to its failure return (success = false) instead of throwing.
C21_SpawnFailureReturns ==
    [][StageThrows =>
          /\ enSpawn' = NoSpawn
          /\ enIdx' = enIdx
          /\ completedStages' = completedStages
          /\ enPc' = "catching"]_vars

\* The verdict the stated priority gives: (1) short output and success:
\* accept; (2) short output and failure: redo while the count is below 2, else
\* accept; (3) failure with longer output: redo while the count is below 2;
\* (4) a failed quality check: redo while the count is below 2; (5) accept.
PriorityVerdict(role, result, count) ==
    IF result.output.len < 50
    THEN IF result.success THEN "accept"
         ELSE IF count < 2 THEN "redo" ELSE "accept"
    ELSE IF ~result.success /\ count < 2 THEN "redo"
    ELSE IF checkQuality(role, result.output) # None /\ count < 2 THEN "redo"
    ELSE "accept"

\* C22: reviewOutput returns the verdict of the fixed priority for every output,
\* success flag, redo count and role; a redo verdict adds exactly 1 to the
\* role's redo count and an accept verdict leaves every count as it was.
C22_ReviewPriority ==
    [][\A role \in Roles :
          lastReview'.role = role /\ role \in agentOutputs' =>
          \A result \in AgentResults :
             ReviewOutput(role, result) =>
                LET verdict == PriorityVerdict(role, result, redoCounts[role])
                IN  /\ lastReview'.verdict = verdict
                    /\ redoCounts' = [redoCounts EXCEPT
                                        ![role] = @ + (IF verdict = "redo" THEN 1 ELSE 0)]]_vars

\* C22 witness: a failure with longer output and a failed quality check,
\* reviewed with the budget used up, fell through to accept.
C22_Witness ==
    /\ lastReview.role = "guardian"
    /\ lastReview.disqualifying
    /\ lastReview.notes = "OK"
    /\ lastReview.redosBefore = 2
    /\ redoCounts["guardian"] = 2

\* C23: in supervised mode a worker's process is spawned only after its
\* approval request was answered 'approve'; after 'skip' none is spawned.
C23_SpawnNeedsApproval ==
    enOpts.supervised =>
        /\ enSpawn.spawned => enSpawn.approval = "approve"
        /\ enSpawn.approval = "skip" => ~enSpawn.spawned

Storing(blocks) == {n \in 1..Len(blocks) : blocks[n].label.key # Null
                                           /\ blocks[n].body.text # ""}

ReviewedLater(n) ==
    \E m \in (n + 1)..Len(enLog) : enLog[m] = [enLog[n] EXCEPT !.event = "review"]

\* The results a worker process produced, by position in enLog
WorkerResults == {n \in 1..Len(enLog) : enLog[n].event = "result" /\ enLog[n].worker}

LastPhase == Len(getPhases("builder", MinPhasedLength))

StageIndex(stage) == CHOOSE i \in 1..Len(STAGES) : STAGES[i].stage = stage

\* to follows from on the linear chain, and run() passed over every stage
\* between them (skipped, completed before the resume, or no design needed)
AlongChain(from, to) ==
    /\ StageIndex(from) < StageIndex(to)
    /\ \A i \in (StageIndex(from) + 1)..(StageIndex(to) - 1) :
          ~StageSelected(STAGES[i].stage) \/ STAGES[i].stage = "designing"

\* C28: every stage change of run() is a step of the Stage Model: the
\* back-edge getNextStage(reviewing|securing, true) = coding, or a move from
\* the stage left to a later stage of the chain over stages run() passes
\* over, which from the coding of a revision starts at
\* getNextStage(coding, false).
C28_StagePathOfModel ==
    enStage.previous # Null =>
        \/ /\ enStage.previous \in {"reviewing", "securing"}
           /\ enStage.current = getNextStage(enStage.previous, TRUE)
        \/ AlongChain(enStage.previous, enStage.current)

\* What a phase's worker leaves in the log; its review; the same for its redo
PhaseEntry(event, phase, redo) == [event |-> event, phase |-> phase, redo |-> redo]

\* A phase followed by its review, and possibly by one redo and its review
PhaseLogs(phase) ==
    { <<PhaseEntry("result", phase, FALSE), PhaseEntry("review", phase, FALSE)>>,
      <<PhaseEntry("result", phase, FALSE), PhaseEntry("review", phase, FALSE),
        PhaseEntry("result", phase, TRUE), PhaseEntry("review", phase, TRUE)>> }

\* setup and core, each reviewed and redone at most once, then polish
ThreePhaseLogs ==
    {first \o second \o <<PhaseEntry("result", 3, FALSE)>> :
        first \in PhaseLogs(1), second \in PhaseLogs(2)}

\* enLog without what is not about the phases
PhaseLog == [n \in 1..Len(enLog) |->
               PhaseEntry(enLog[n].event, enLog[n].phase, enLog[n].redo)]

\* The coding stage block, entered from the chain, is over and checkpointed
CodingDone == enPc = "stage" /\ enCoding # NoCoding /\ enStage.current = "coding"

\* C29: a coding stage with at most one module and a builder prompt of at
\* least 500 characters runs the phases 1, 2, 3 in this order; the results of
\* phases 1 and 2 are reviewed, the result of phase 3 is not; a phase is run
\* again only right after the review of its first result, at most once, and
\* before the next phase starts.
C29_ThreePhases ==
    enCoding.modules <= 1 /\ enCoding.promptLength >= MinPhasedLength =>
        /\ \E log \in ThreePhaseLogs :
              Len(PhaseLog) <= Len(log) /\ SubSeq(log, 1, Len(PhaseLog)) = PhaseLog
        /\ CodingDone => PhaseLog \in ThreePhaseLogs

\* A phased coding stage is over in which both the first and the second phase
\* were redone.
C29_Witness ==
    /\ CodingDone
    /\ enCoding.modules = 1
    /\ enCoding.promptLength = MinPhasedLength
    /\ Len(enLog) = 9
    /\ \A n \in 1..Len(enLog) : enLog[n].worker

\* The chunk texts with a fatal signal, and those off a role's track
FatalTexts == {"error: build failed", "FATAL", "permission denied while writing tests"}

OffTrackTexts(role) ==
    CASE role = "builder"  -> {"writing tests", "permission denied while writing tests"}
      [] role = "guardian" -> {"implementing feature"}
      [] OTHER             -> {}

\* C30: a call of monitorOutput changes no redo count, not the completed set
\* and no worker process (no signal, no kill timer, no registry change); on a
\* chunk with a fatal signal it logs a blocker, emits 'error_detected', writes
\* no directive and returns null; it returns an intervention, of type 'warn',
\* exactly when the role's buffer, the chunk included, is longer than 2000
\* characters, the chunk is off the role's track and has no fatal signal.
C30_MonitorOnlyWarns ==
    [][\A role \in Roles :
          agentLiveBuffer'[role] > agentLiveBuffer[role] =>
             LET m == lastMonitor'
                 fatal == m.chunk.text \in FatalTexts
                 warn == /\ agentLiveBuffer'[role] > 2000
                         /\ m.chunk.text \in OffTrackTexts(role)
                         /\ ~fatal
             IN  /\ m.role = role
                 /\ UNCHANGED <<redoCounts, completedRoles, supVars>>
                 /\ fatal => /\ m.blocker /\ m.emitted = "error_detected"
                             /\ m.returned = NoIntervention /\ ~m.directive
                 /\ m.returned # NoIntervention <=> warn
                 /\ warn => m.returned.type = "warn" /\ m.returned.role = role]_vars

\* The builder's buffer has just passed 2000 characters with an off-track
\* chunk, and the call returned a warning.
C30_Witness ==
    /\ lastMonitor.role = "builder"
    /\ lastMonitor.chunk.text = "writing tests"
    /\ agentLiveBuffer["builder"] = 2001
    /\ lastMonitor.returned.type = "warn"

(***************************************************************************)
(* Claims about the ContextManager                                         *)
(***************************************************************************)

Before(q, r) == indexOf(order, q) < indexOf(order, r)

\* The roles before r whose stored output is not empty
Kept(memory, r) ==
    {q \in OrderRoles : Before(q, r) /\ memory[q] \notin {Undefined, ""}}

ContextOf(memory, r, result) ==
    LET kept == Kept(memory, r)
    IN  IF r = order[1] THEN result = <<>>
        ELSE /\ Len(result) = 1 + 2 * Cardinality(kept)
             /\ result[1] = ContextHeader
             /\ \A k \in 1..Cardinality(kept) :
                    \E q \in kept :
                        /\ Cardinality({p \in kept : Before(p, q)}) = k - 1
                        /\ result[2 * k] = SectionLabel(q)
                        /\ result[2 * k + 1] = memory[q] \o "\n"

\* C31: for every role r, with or without a numeric suffix, and every set of
\* stored outputs, buildContext(r) holds one section for each role that
\* precedes r in the canonical order and has a non-empty stored output, in
\* canonical order, and nothing else: not the output of r or of a later
\* role; it is the empty string when r is the first role.
C31_ContextOfPriorRoles ==
    [][\A role \in RoleChoices :
          (BuildContext(role) /\ role.base # Null)
              => ContextOf(ctxMemory, role.base, ctxCall'.result)]_vars

\* buildContext('builder-0') with the architect's output and the builder's
\* own output stored has returned the architect's section alone
C31_Witness ==
    /\ ctxCall.role.tokens = <<"builder", Dash, "0">>
    /\ ctxMemory["architect"] = "v1"
    /\ ctxMemory["builder"] = "v1"
    /\ ctxCall.result = <<ContextHeader, SectionLabel("architect"), "v1\n">>

(***************************************************************************)
(* Claims about the SharedMemory                                           *)
(***************************************************************************)

\* The file that mirrors a section
Mirror(section) ==
    IF section \in CoreSections THEN FileName(section)
    ELSE FileName(CHOOSE r \in ProgressRoles : section = "agent-" \o r)

\* C32: after any sequence of SharedMemory mutations, the file of every
\* section whose last write succeeded holds exactly the content the store
\* holds for that section; a mutation whose write failed has still set the
\* store and, where the method emits 'update', emitted it.
C32_MirrorHoldsStore ==
    /\ \A section \in DOMAIN smStore :
           Mirror(section) \notin smStale
               => /\ Mirror(section) \in DOMAIN smDisk
                  /\ smDisk[Mirror(section)] = smStore[section]
    /\ (smLast.op # None /\ ~smLast.written)
           => /\ smStore[smLast.key] = smLast.content
              /\ smLast.op # "writeAgentProgress" => smLast.emitted

\* The builder's progress is mirrored, and a logDecision whose write failed
\* has left decisions.md behind the store
C32_Witness ==
    /\ "agent-builder" \in DOMAIN smStore
    /\ FileName("builder") \in DOMAIN smDisk
    /\ smDisk[FileName("builder")] = smStore["agent-builder"]
    /\ smLast.op = "logDecision"
    /\ ~smLast.written
    /\ smDisk[FileName("decisions")] # smStore["decisions"]

\* entry is a run of consecutive pieces of content
Contains(content, entry) ==
    \E i \in 0..(Len(content) - Len(entry)) :
        \A k \in 1..Len(entry) : content[i + k] = entry[k]

\* C39: every entry logBlocker has recorded is still in the blockers section,
\* whatever later calls of logBlocker have followed and whatever the
\* messages contain.
C39_BlockersKept ==
    \A i \in 1..Len(smBlockers) : Contains(smStore["blockers"], smBlockers[i])

(***************************************************************************)
(* Claims about a resumed run                                              *)
(***************************************************************************)

\* C33: a run interrupted after the architecture stage and resumed by run id
\* has every persisted output back in memory, and its coding stage works
\* with the module list the interrupted run was about to work with.
C33_ResumedSameModules ==
    (rsResumed /\ rsUsed.known)
        => /\ rsMemory = rsHistory
           /\ rsUsed.modules = rsExpected.modules

(***************************************************************************)
(* Claims about the skip list and the snapshots of Engine.run              *)
(***************************************************************************)

\* The list rises strictly along STAGES and holds no stage the skip list
\* matches
CanonicalUnskipped(list) ==
    /\ \A i, j \in 1..Len(list) :
           i < j => StageIndex(list[i]) < StageIndex(list[j])
    /\ \A i \in 1..Len(list) : ~shouldSkipStage(list[i], enOpts.skipStages)

\* C34: in every snapshot run() has persisted, whatever the skip list and the
\* workers' outcomes, completedStages holds no stage twice, lists its stages
\* in the order of the pipeline and holds no stage the skip list matches; a
\* revision's return to coding adds no second 'coding'.
C34_SnapshotsCanonical ==
    /\ CanonicalUnskipped(stateJson.completedStages)
    /\ CanonicalUnskipped(historyJson.completedStages)

\* A snapshot written after the second revision, with a skip list set
C34_Witness ==
    /\ revisionCount = MAX_REVISIONS
    /\ enOpts.skipStages = <<"testing", "docs">>
    /\ stateJson.status = "running"
    /\ stateJson.completedStages =
           <<"analyzing", "planning", "architecting", "coding", "qa-planning",
             "reviewing", "securing">>

\* C35: no worker is spawned for the owning role of a stage the skip list
\* matches; with the coding stage skipped no builder is ever spawned,
\* whatever the reviews say.
C35_SkippedRoleNeverSpawned ==
    (enSpawn.spawned /\ enSpawn.stage # Null)
        => ~shouldSkipStage(enSpawn.stage, enOpts.skipStages)

(***************************************************************************)
(* Claims about a run under shutdown                                       *)
(***************************************************************************)

\* C36: once Engine.shutdown() has been called the Engine spawns no further
\* worker: no redo of a killed worker, no next phase, no worker of the next
\* stage.
C36_NoSpawnAfterShutdown ==
    [][(shuttingDown /\ enSpawn' # enSpawn) => ~enSpawn'.spawned]_vars

(***************************************************************************)
(* Claims about Scheduler.killAll and the ceiling of the Scheduler         *)
(***************************************************************************)

\* C37: after killAll() no task of a later batch is spawned and the running
\* map stays empty.
C37_NothingRunsAfterKillAll ==
    [][killAllCalled => (batchIdx' = batchIdx /\ running' = {})]_vars

(***************************************************************************)
(* Claims about runDirectedAgent                                           *)
(***************************************************************************)

\* C38: whenever runDirectedAgent has returned, after one attempt or after
\* the redo, its role is in the Director's completed set and the status
\* board shows it as done, whatever the two outcomes were.
C38_DirectedRoleCompleted ==
    rdCall.pc = "returned"
        => /\ rdCall.role \in completedRoles
           /\ statusBoard[rdCall.role] = "done"

\* C40: for every task list and every integer ceiling, 0 and negative ones
\* included, runParallel has ended once every worker it spawned has exited,
\* and when it has returned every input task has been spawned.
C40_EndsWithEveryTaskSpawned ==
    (schedPc # "idle" /\ \A r \in DOMAIN taskState : ~Live(r))
        => /\ schedPc \in {"returned", "rejected"}
           /\ schedPc = "returned"
                 => \A r \in DOMAIN taskState : taskState[r] # "pending"

\* C1: for every role the Director returns 'redo' at most MAX_REDOS = 2 times, and
\* a review made when the role's redo count has reached 2 returns 'accept',
\* whatever the outcome reviewed.
C1_RedoBudget ==
    /\ \A r \in Roles : redoIssued[r] <= MAX_REDOS
    /\ lastReview.role # None =>
         (lastReview.redosBefore >= MAX_REDOS => lastReview.verdict = "accept")

\* C1 witness: a disqualifying outcome reviewed with the budget used up.
C1_Witness ==
    /\ lastReview.role # None
    /\ lastReview.redosBefore = MAX_REDOS
    /\ lastReview.disqualifying
    /\ lastReview.verdict = "accept"
    /\ redoIssued[lastReview.role] = MAX_REDOS

====
